---------------------------- MODULE Spec2Model ----------------------------
(***************************************************************************)
(* A model of the Nexus compiler front and middle end: the lexer           *)
(* (lexer.cpp), the recursive descent parser (parser.cpp), the semantic    *)
(* analyzer (semantic_analyzer.cpp), the AST -> IR code generator          *)
(* (codegen.cpp), the optimizer (optimizer.cpp) and the driver (main.cpp). *)
(*                                                                         *)
(* The specifications of the module:                                       *)
(*   LexSpec     Lexer::getNextToken() / ungetToken() over a source text,  *)
(*   LexLiveSpec LexSpec with a caller that keeps asking for tokens,       *)
(*   ParserSpec  Parser::parse() over a token stream,                      *)
(*   SemaSpec    SemanticAnalyzer::analyze() over a parsed program,        *)
(*   ConsumeSpec Parser::consume() called on its own,                      *)
(*   GenSpec     CodeGenerator::generate() over a parsed program,          *)
(*   RegenSpec   GenSpec with a second generate() on the same generator,   *)
(*   OptSpec     Optimizer::optimize() over a Module,                      *)
(*   CompileSpec nexus::compile() over a source file.                      *)
(* Each leaves the other components' variables at their idle values.       *)
(***************************************************************************)
EXTENDS Integers, Sequences, FiniteSets, TLC

VARIABLES
    \* ---- Lexer (lexer.h: source, position, line, column, ungotToken)
    lexer,         \* the Lexer object, a record (see NewLexer)
    token,         \* the Token the last getNextToken() call returned
    pushedBack,    \* the Token handed to the last ungetToken() call that no
                   \* getNextToken() call has followed yet, Null if none
    \* ---- Parser (parser.h: lexer, hadError, currentToken, previousToken)
    parser,        \* the Parser object, a record (see NewParser)
    statements,    \* the local vector `statements` of Parser::parse()
    ppc,           \* position of parse(): "idle" | "loop" | "hung" | "done",
                   \* or "consume" while consume() is called on its own
    consumed,      \* the last call of Parser::consume: the kind asked for and
                   \* the Token returned
    \* ---- SemanticAnalyzer (semantic_analyzer.h: scopes, _hadError)
    scopes,        \* std::vector<Scope>, innermost last
    hadErrorFlag,  \* _hadError
    diagnostics,   \* the messages error() has written to std::cerr, in order
    frames,        \* the pending work of analyze(): the call stack, top first
    visited,       \* number of non-null statements analyzeStatement dispatched
    program,       \* the statement list handed to analyze() / generate()
    spc,           \* position of analyze(): "idle" | "run" | "done"
    \* ---- CodeGenerator (codegen.h: module, currentFunction, currentBlock, ...)
    gen,           \* the CodeGenerator object, a record (see NewCodeGenerator)
    nameRead,      \* what reading instr->name after std::move(instr) yields
    todo,          \* the pending work of generate(): the call stack, top first
    result,        \* the Module generate() returned, Null before it returns
    gpc,           \* position of generate(): "idle" | "new" | "run" | "crashed" | "done"
    earlier,       \* the Modules the earlier generate() calls on this object
                   \* returned, oldest first
    \* ---- Optimizer (optimizer.h: module) and the Module its caller holds
    optimizer,     \* the Optimizer object, a record (see NewOptimizer)
    irModule,      \* the Module handed to and returned by optimize()
    rendered,      \* irModule->toString() before the first and after each call
    \* ---- nexus::compile() (main.cpp)
    compiler       \* position of compile(), the steps begun and the exit status

lexVars    == <<lexer, token, pushedBack>>
parserVars == <<parser, statements, ppc, consumed>>
semaVars   == <<scopes, hadErrorFlag, diagnostics, frames, visited, program, spc>>
genVars    == <<gen, nameRead, todo, result, gpc, earlier>>
optVars    == <<optimizer, irModule, rendered>>
mainVars   == <<compiler>>
vars       == <<lexer, token, pushedBack, parser, statements, ppc, consumed, scopes,
                hadErrorFlag, diagnostics,
                frames, visited, program, spc, gen, nameRead, todo, result, gpc,
                earlier,
                optimizer, irModule, rendered, compiler>>

(***************************************************************************)
(* Bounds of the model.                                                    *)
(***************************************************************************)
\* longest enumerated token stream handed to the parser
MaxTokens == 3
\* longest enumerated source text (in characters) handed to the lexer
MaxSource == 3
\* longest program (in pool statements) handed to the analyzer / generator
MaxProgram == 2
\* longest block (in instructions) of the Modules handed to the optimizer
MaxInstructions == 2
\* number of calls of optimize() in a row
MaxRuns == 2

(***************************************************************************)
(* Tokens (token.h).  Line and column are not modelled.                    *)
(***************************************************************************)
Token(type, lexeme) == [type |-> type, lexeme |-> lexeme]

EofToken == Token("END_OF_FILE", "")

IdTok(n) == Token("IDENTIFIER", n)

IntTok(n) == Token("INTEGER", n)

StrTok(s) == Token("STRING", s)

\* a keyword, operator or punctuation token: its kind and its source text
Tk(type) ==
    Token(type,
      CASE type = "LET" -> "let"          [] type = "CONST" -> "const"
        [] type = "FN" -> "fn"            [] type = "CLASS" -> "class"
        [] type = "STRUCT" -> "struct"    [] type = "IF" -> "if"
        [] type = "ELSE" -> "else"        [] type = "WHILE" -> "while"
        [] type = "FOR" -> "for"          [] type = "RETURN" -> "return"
        [] type = "TRY" -> "try"          [] type = "CATCH" -> "catch"
        [] type = "FINALLY" -> "finally"  [] type = "PROCESS" -> "process"
        [] type = "ASYNC" -> "async"      [] type = "COROUTINE" -> "coroutine"
        [] type = "THIS" -> "this"        [] type = "TRUE_" -> "true"
        [] type = "FALSE_" -> "false"     [] type = "NULL_" -> "null"
        [] type = "ASSIGN" -> "="         [] type = "OR" -> "||"
        [] type = "AND" -> "&&"           [] type = "EQUAL" -> "=="
        [] type = "NOT_EQUAL" -> "!="     [] type = "LESS" -> "<"
        [] type = "LESS_EQUAL" -> "<="    [] type = "GREATER" -> ">"
        [] type = "GREATER_EQUAL" -> ">=" [] type = "PLUS" -> "+"
        [] type = "MINUS" -> "-"          [] type = "MULTIPLY" -> "*"
        [] type = "DIVIDE" -> "/"         [] type = "MODULO" -> "%"
        [] type = "NOT" -> "!"            [] type = "DOT" -> "."
        [] type = "LEFT_BRACKET" -> "["   [] type = "RIGHT_BRACKET" -> "]"
        [] type = "LEFT_PAREN" -> "("     [] type = "RIGHT_PAREN" -> ")"
        [] type = "LEFT_BRACE" -> "{"     [] type = "RIGHT_BRACE" -> "}"
        [] type = "SEMICOLON" -> ";"      [] type = "COLON" -> ":"
        [] type = "COMMA" -> ","          [] type = "ARROW" -> "=>"
        [] OTHER -> "")

(***************************************************************************)
(* AST nodes (ast.h).  A null child pointer is the node Null.              *)
(***************************************************************************)
Null == [kind |-> "null"]

BinaryExpr(l, op, r) == [kind |-> "BINARY", left |-> l, op |-> op, right |-> r]

UnaryExpr(op, r) == [kind |-> "UNARY", op |-> op, right |-> r]

LiteralExpr(v, t) == [kind |-> "LITERAL", value |-> v, type |-> t]

IdentifierExpr(n) == [kind |-> "IDENTIFIER", name |-> n]

AssignExpr(n, v) == [kind |-> "ASSIGN", name |-> n, value |-> v]

CallExpr(c, args) == [kind |-> "CALL", callee |-> c, arguments |-> args]

MemberExpr(o, n) == [kind |-> "MEMBER", object |-> o, name |-> n]

IndexExpr(o, i) == [kind |-> "INDEX", object |-> o, index |-> i]

ThisExpr == [kind |-> "THIS"]

GroupingExpr(e) == [kind |-> "GROUPING", expression |-> e]

ExpressionStmt(e) == [kind |-> "EXPRESSION", expression |-> e]

VarStmt(n, t, i) == [kind |-> "VAR", name |-> n, type |-> t, initializer |-> i]

ConstStmt(n, t, i) == [kind |-> "CONST", name |-> n, type |-> t, initializer |-> i]

BlockStmt(ss) == [kind |-> "BLOCK", statements |-> ss]

IfStmt(c, t, e) == [kind |-> "IF", condition |-> c, thenBranch |-> t, elseBranch |-> e]

WhileStmt(c, b) == [kind |-> "WHILE", condition |-> c, body |-> b]

ForStmt(i, c, inc, b) ==
    [kind |-> "FOR", initializer |-> i, condition |-> c, increment |-> inc, body |-> b]

ReturnStmt(v) == [kind |-> "RETURN", value |-> v]

FunctionStmt(n, ps, rt, b) ==
    [kind |-> "FUNCTION", name |-> n, parameters |-> ps, returnType |-> rt, body |-> b]

ClassStmt(n, sup, ms) == [kind |-> "CLASS", name |-> n, superclass |-> sup, methods |-> ms]

StructStmt(n, fs) == [kind |-> "STRUCT", name |-> n, fields |-> fs]

TryStmt(b, cs, f) == [kind |-> "TRY", body |-> b, catches |-> cs, finally |-> f]

CatchStmt(n, t, b) == [kind |-> "CATCH", name |-> n, type |-> t, body |-> b]

ProcessStmt(id, b) == [kind |-> "PROCESS", id |-> id, body |-> b]

(***************************************************************************)
(* Parser (parser.cpp).  The Lexer the parser owns is modelled by the      *)
(* token stream it yields: `toks`, followed by END_OF_FILE for ever, and   *)
(* `pos`, the number of tokens getNextToken() has handed out so far.       *)
(* `errors` is what error() wrote to std::cerr.  `stuck` is set when a     *)
(* loop of the parser repeats an iteration from the very parser state it   *)
(* started from: the parser is deterministic, so that loop never exits     *)
(* (its vector grows until memory is exhausted).                           *)
(***************************************************************************)
R(node, p) == [node |-> node, p |-> p]

\* Parser::error
Error(p, message) ==
    [p EXCEPT !.hadError = TRUE, !.errors = Append(@, message)]

\* Lexer::getNextToken as seen by the parser
GetNextToken(p) ==
    IF p.pos < Len(p.toks)
      THEN R(p.toks[p.pos + 1], [p EXCEPT !.pos = @ + 1])
      ELSE R(EofToken, p)

RECURSIVE AdvanceLoop(_)
AdvanceLoop(p) ==
    LET n == GetNextToken(p)
        q == [n.p EXCEPT !.currentToken = n.node]
    IN  IF n.node.type # "ERROR" THEN q ELSE AdvanceLoop(Error(q, n.node.lexeme))

\* Parser::advance
Advance(p) == AdvanceLoop([p EXCEPT !.previousToken = p.currentToken])

\* Parser::check
Check(p, type) == p.currentToken.type = type

\* Parser::match: the parser after the call (advanced iff the kind matched)
Match(p, type) == IF Check(p, type) THEN Advance(p) ELSE p

\* a consume that takes the current token whatever its kind
ConsumeAnyKind(p, type, message) ==
    IF Check(p, type)
      THEN R(p.currentToken, Advance(p))
      ELSE R(p.currentToken, Advance(Error(p, message)))

\* Parser::consume: node is the token returned
Consume(p, type, message) ==
    IF Check(p, type)
      THEN R(p.currentToken, Advance(p))
      ELSE R(p.currentToken, Error(p, message))

\* Parser::Parser
NewParser(toks) ==
    Advance([toks |-> toks, pos |-> 0, hadError |-> FALSE, errors |-> <<>>,
             currentToken |-> EofToken, previousToken |-> EofToken,
             stuck |-> FALSE])

RECURSIVE Expression(_), Assignment(_), BinaryLevel(_, _), BinaryLoop(_, _),
          Cascade(_, _, _), Unary(_), Member(_), MemberLoop(_), Primary(_),
          Call(_), CallLoop(_), ArgumentLoop(_, _)
RECURSIVE Statement(_), BlockStatement(_), BlockLoop(_, _),
          FunctionStatement(_), MethodLoop(_, _), CatchLoop(_, _)

\* the kind of the current token of the parser that a result carries
Kind(r) == r.p.currentToken.type

\* Parser::primary at '(' once expression() has returned e
PrimaryGrouping(e) ==
    R(GroupingExpr(e.node), Consume(e.p, "RIGHT_PAREN", "Expect ')' after expression.").p)

\* Parser::primary
Primary(p) ==
    CASE p.currentToken.type = "FALSE_" -> R(LiteralExpr("false", "bool"), Advance(p))
      [] p.currentToken.type = "TRUE_" -> R(LiteralExpr("true", "bool"), Advance(p))
      [] p.currentToken.type = "NULL_" -> R(LiteralExpr("null", "null"), Advance(p))
      [] p.currentToken.type \in {"INTEGER", "FLOAT"} ->
           R(LiteralExpr(p.currentToken.lexeme, "number"), Advance(p))
      [] p.currentToken.type = "STRING" ->
           R(LiteralExpr(p.currentToken.lexeme, "string"), Advance(p))
      [] p.currentToken.type = "IDENTIFIER" ->
           R(IdentifierExpr(p.currentToken.lexeme), Advance(p))
      [] p.currentToken.type = "THIS" -> R(ThisExpr, Advance(p))
      [] p.currentToken.type = "LEFT_PAREN" -> PrimaryGrouping(Expression(Advance(p)))
      [] OTHER -> R(LiteralExpr("null", "null"), Error(p, "Expect expression."))

\* Parser::member after '.': name is the result of consume(IDENTIFIER)
MemberName(object, name) == R(MemberExpr(object, name.node.lexeme), name.p)

\* Parser::member after '[': index is the result of expression()
MemberIndex(object, index) ==
    R(IndexExpr(object, index.node),
      Consume(index.p, "RIGHT_BRACKET", "Expect ']' after index expression.").p)

\* the while(true) loop of Parser::member; e is the expression parsed so far
MemberLoop(e) ==
    CASE Kind(e) = "DOT" ->
           MemberLoop(MemberName(e.node,
               Consume(Advance(e.p), "IDENTIFIER", "Expect property name after '.'.")))
      [] Kind(e) = "LEFT_BRACKET" ->
           MemberLoop(MemberIndex(e.node, Expression(Advance(e.p))))
      [] OTHER -> e

\* Parser::member
Member(p) == MemberLoop(Primary(p))

\* the do { } while (match(COMMA)) loop of Parser::call; a is the argument
\* expression() has just returned
ArgumentLoop(args, a) ==
    IF Kind(a) = "COMMA"
      THEN ArgumentLoop(Append(args, a.node), Expression(Advance(a.p)))
      ELSE R(Append(args, a.node), a.p)

\* the argument list of Parser::call, after '('
Arguments(p) ==
    IF Check(p, "RIGHT_PAREN") THEN R(<<>>, p) ELSE ArgumentLoop(<<>>, Expression(p))

\* Parser::call once the arguments are parsed
CallArguments(callee, args) ==
    R(CallExpr(callee, args.node),
      Consume(args.p, "RIGHT_PAREN", "Expect ')' after arguments.").p)

\* the while(true) loop of Parser::call; e is the expression parsed so far
CallLoop(e) ==
    IF Kind(e) = "LEFT_PAREN"
      THEN CallLoop(CallArguments(e.node, Arguments(Advance(e.p))))
      ELSE e

\* Parser::call
Call(p) == CallLoop(Member(p))

\* Parser::unary once the operand is parsed
UnaryRight(op, right) == R(UnaryExpr(op, right.node), right.p)

\* Parser::unary
Unary(p) ==
    IF p.currentToken.type \in {"NOT", "MINUS"}
      THEN UnaryRight(p.currentToken.lexeme, Unary(Advance(p)))
      ELSE Call(p)

\* the operator tokens of the six left-associative binary levels:
\* 1 orExpr, 2 andExpr, 3 equality, 4 comparison, 5 term, 6 factor
LevelOps(level) ==
    CASE level = 1 -> {"OR"}
      [] level = 2 -> {"AND"}
      [] level = 3 -> {"EQUAL", "NOT_EQUAL"}
      [] level = 4 -> {"LESS", "LESS_EQUAL", "GREATER", "GREATER_EQUAL"}
      [] level = 5 -> {"PLUS", "MINUS"}
      [] level = 6 -> {"MULTIPLY", "DIVIDE", "MODULO"}

\* a binary level once the right operand is parsed
BinaryRight(left, op, right) == R(BinaryExpr(left, op, right.node), right.p)

\* the while (match(op)) loop of a binary level; e is the expression parsed so
\* far, the right operand is parsed by the next level (unary() for factor)
BinaryLoop(level, e) ==
    IF Kind(e) \in LevelOps(level)
      THEN BinaryLoop(level, BinaryRight(e.node, e.p.currentToken.lexeme,
                                         BinaryLevel(level + 1, Advance(e.p))))
      ELSE e

\* Each of orExpr .. factor first calls the next level and then runs its own
\* loop, so once unary() has parsed the first operand the loops of levels
\* from, from - 1, .., level run in that order.  A loop whose operators do not
\* match returns the parser as it found it, so when the current token is an
\* operator of none of these levels the operand is the result of them all.
Cascade(level, from, e) ==
    IF from < level \/ Kind(e) \notin UNION { LevelOps(l) : l \in level..from }
      THEN e
      ELSE Cascade(level, from - 1, BinaryLoop(from, e))

\* Parser::orExpr (level 1) .. Parser::factor (level 6); level 7 is unary()
BinaryLevel(level, p) == Cascade(level, 6, Unary(p))

OrExpr(p) == BinaryLevel(1, p)

\* Parser::assignment once the right-hand side is parsed
AssignmentValue(target, value) ==
    IF target.kind = "IDENTIFIER"
      THEN R(AssignExpr(target.name, value.node), value.p)
      ELSE R(target, Error(value.p, "Invalid assignment target."))

\* Parser::assignment once orExpr() has returned expr
AssignmentTarget(expr) ==
    IF Kind(expr) = "ASSIGN"
      THEN AssignmentValue(expr.node, Assignment(Advance(expr.p)))
      ELSE expr

\* Parser::assignment
Assignment(p) == AssignmentTarget(OrExpr(p))

\* Parser::expression
Expression(p) == Assignment(p)

\* whether no token was consumed between parser states p and q: every
\* advance() moves the lexer or, at its end, makes the current token END_OF_FILE
SameInput(p, q) == p.pos = q.pos /\ p.currentToken = q.currentToken

\* Parser::expressionStatement once expression() has returned expr
ExpressionEnd(expr) ==
    R(ExpressionStmt(expr.node),
      Consume(expr.p, "SEMICOLON", "Expect ';' after expression.").p)

\* Parser::expressionStatement
ExpressionStatement(p) == ExpressionEnd(Expression(p))

\* one iteration of the loop of Parser::blockStatement, statement() having
\* returned s from parser state p: an iteration that consumed nothing is
\* followed by the same iteration for ever
BlockPush(stmts, p, s) ==
    IF s.p.stuck \/ SameInput(p, s.p)
      THEN R(Append(stmts, s.node), [s.p EXCEPT !.stuck = TRUE])
      ELSE BlockLoop(Append(stmts, s.node), s.p)

\* the while loop of Parser::blockStatement
BlockLoop(stmts, p) ==
    IF p.stuck \/ Check(p, "RIGHT_BRACE") \/ Check(p, "END_OF_FILE")
      THEN R(stmts, p)
      ELSE BlockPush(stmts, p, Statement(p))

\* Parser::blockStatement after its loop
BlockEnd(body) ==
    R(BlockStmt(body.node), Consume(body.p, "RIGHT_BRACE", "Expect '}' after block.").p)

\* Parser::blockStatement
BlockStatement(p) == BlockEnd(BlockLoop(<<>>, p))

\* Parser::ifStatement, from the else branch on
IfElse(condition, thenBranch, elseBranch) ==
    R(IfStmt(condition, thenBranch, elseBranch.node), elseBranch.p)

\* Parser::ifStatement, from the then branch on
IfThen(condition, thenBranch) ==
    IfElse(condition, thenBranch.node,
           IF Check(thenBranch.p, "ELSE") THEN Statement(Advance(thenBranch.p))
                                          ELSE R(Null, thenBranch.p))

\* Parser::ifStatement, from the condition on
IfCondition(condition) ==
    IfThen(condition.node,
           Statement(Consume(condition.p, "RIGHT_PAREN", "Expect ')' after if condition.").p))

\* Parser::ifStatement
IfStatement(p) ==
    IfCondition(Expression(Consume(p, "LEFT_PAREN", "Expect '(' after 'if'.").p))

\* Parser::whileStatement, from the body on
WhileBody(condition, body) == R(WhileStmt(condition, body.node), body.p)

\* Parser::whileStatement, from the condition on
WhileCondition(condition) ==
    WhileBody(condition.node,
        Statement(Consume(condition.p, "RIGHT_PAREN", "Expect ')' after while condition.").p))

\* Parser::whileStatement
WhileStatement(p) ==
    WhileCondition(Expression(Consume(p, "LEFT_PAREN", "Expect '(' after 'while'.").p))

\* Parser::parseType: node is the type name, "" when no identifier follows
ParseType(p) ==
    IF Check(p, "IDENTIFIER") THEN R(p.currentToken.lexeme, Advance(p)) ELSE R("", p)

\* the optional ": type" of a declaration, a parameter or a catch clause
OptionalType(p) == IF Check(p, "COLON") THEN ParseType(Advance(p)) ELSE R("", p)

\* Parser::varStatement, from the initializer on
VarEnd(name, type, initializer) ==
    R(VarStmt(name, type, initializer.node),
      Consume(initializer.p, "SEMICOLON", "Expect ';' after variable declaration.").p)

\* Parser::varStatement, from the type on
VarInitializer(name, type) ==
    VarEnd(name, type.node,
           IF Check(type.p, "ASSIGN") THEN Expression(Advance(type.p))
                                      ELSE R(Null, type.p))

\* Parser::varStatement, from the name on
VarName(name) == VarInitializer(name.node.lexeme, OptionalType(name.p))

\* Parser::varStatement
VarStatement(p) == VarName(Consume(p, "IDENTIFIER", "Expect variable name."))

\* Parser::constStatement, from the initializer on
ConstEnd(name, type, initializer) ==
    R(ConstStmt(name, type, initializer.node),
      Consume(initializer.p, "SEMICOLON", "Expect ';' after constant declaration.").p)

\* Parser::constStatement, from the type on
ConstInitializer(name, type) ==
    ConstEnd(name, type.node,
        Expression(Consume(type.p, "ASSIGN", "Expect '=' after constant name.").p))

\* Parser::constStatement, from the name on
ConstName(name) == ConstInitializer(name.node.lexeme, OptionalType(name.p))

\* Parser::constStatement
ConstStatement(p) == ConstName(Consume(p, "IDENTIFIER", "Expect constant name."))

\* Parser::forStatement, from the body on
ForBody(initializer, condition, increment, body) ==
    R(ForStmt(initializer, condition, increment, body.node), body.p)

\* Parser::forStatement, from the parsed increment clause on
ForIncrement(initializer, condition, increment) ==
    ForBody(initializer, condition, increment.node, Statement(increment.p))

\* Parser::forStatement once the increment expression is parsed
ForIncrementEnd(increment) ==
    R(increment.node,
      Consume(increment.p, "RIGHT_PAREN", "Expect ')' after for increment.").p)

\* Parser::forStatement, from the parsed condition clause on
ForCondition(initializer, condition) ==
    ForIncrement(initializer, condition.node,
                 IF Check(condition.p, "RIGHT_PAREN")
                   THEN R(Null, Advance(condition.p))
                   ELSE ForIncrementEnd(Expression(condition.p)))

\* Parser::forStatement once the condition expression is parsed
ForConditionEnd(condition) ==
    R(condition.node,
      Consume(condition.p, "SEMICOLON", "Expect ';' after for condition.").p)

\* Parser::forStatement, from the parsed initializer clause on
ForInitializer(initializer) ==
    ForCondition(initializer.node,
                 IF Check(initializer.p, "SEMICOLON")
                   THEN R(Null, Advance(initializer.p))
                   ELSE ForConditionEnd(Expression(initializer.p)))

\* Parser::forStatement after '('
ForClauses(p) ==
    ForInitializer(CASE Check(p, "SEMICOLON") -> R(Null, Advance(p))
                     [] Check(p, "LET") -> VarStatement(Advance(p))
                     [] Check(p, "CONST") -> ConstStatement(Advance(p))
                     [] OTHER -> ExpressionStatement(p))

\* Parser::forStatement
ForStatement(p) == ForClauses(Consume(p, "LEFT_PAREN", "Expect '(' after 'for'.").p)

\* Parser::returnStatement once the value is parsed
ReturnEnd(value) ==
    R(ReturnStmt(value.node),
      Consume(value.p, "SEMICOLON", "Expect ';' after return value.").p)

\* Parser::returnStatement
ReturnStatement(p) ==
    ReturnEnd(IF Check(p, "SEMICOLON") THEN R(Null, p) ELSE Expression(p))

RECURSIVE ParameterLoop(_, _)
\* one parameter of Parser::parseParameters, from its type on
ParameterType(params, name, type) ==
    IF Check(type.p, "COMMA")
      THEN ParameterLoop(Append(params, <<name, type.node>>), Advance(type.p))
      ELSE R(Append(params, <<name, type.node>>), type.p)

\* one parameter of Parser::parseParameters, from its name on
ParameterName(params, name) == ParameterType(params, name.node.lexeme, OptionalType(name.p))

\* the do { } while (match(COMMA)) loop of Parser::parseParameters
ParameterLoop(params, p) ==
    ParameterName(params, Consume(p, "IDENTIFIER", "Expect parameter name."))

\* Parser::parseParameters after its loop
ParametersEnd(params) ==
    R(params.node, Consume(params.p, "RIGHT_PAREN", "Expect ')' after parameters.").p)

\* Parser::parseParameters
ParseParameters(p) ==
    ParametersEnd(IF Check(p, "RIGHT_PAREN") THEN R(<<>>, p) ELSE ParameterLoop(<<>>, p))

\* Parser::functionStatement, from the body on
FunctionBody(name, parameters, returnType, body) ==
    R(FunctionStmt(name, parameters, returnType, body.node), body.p)

\* Parser::functionStatement, from the return type on
FunctionReturnType(name, parameters, returnType) ==
    FunctionBody(name, parameters, returnType.node,
        BlockStatement(
            Consume(returnType.p, "LEFT_BRACE", "Expect '{' before function body.").p))

\* Parser::functionStatement, from the parameters on
FunctionParameters(name, parameters) ==
    FunctionReturnType(name, parameters.node, OptionalType(parameters.p))

\* Parser::functionStatement, from the name on
FunctionName(name) ==
    FunctionParameters(name.node.lexeme,
        ParseParameters(Consume(name.p, "LEFT_PAREN", "Expect '(' after function name.").p))

\* Parser::functionStatement (isAsync and isCoroutine are read by no later stage)
FunctionStatement(p) ==
    FunctionName(Consume(Match(Match(p, "ASYNC"), "COROUTINE"), "IDENTIFIER",
                         "Expect function name."))

\* one iteration of the loop of Parser::classStatement, functionStatement()
\* having returned m from parser state p
MethodPush(methods, p, m) ==
    IF m.p.stuck \/ SameInput(p, m.p)
      THEN R(Append(methods, m.node), [m.p EXCEPT !.stuck = TRUE])
      ELSE MethodLoop(Append(methods, m.node), m.p)

\* the while loop of Parser::classStatement
MethodLoop(methods, p) ==
    IF p.stuck \/ Check(p, "RIGHT_BRACE") \/ Check(p, "END_OF_FILE")
      THEN R(methods, p)
      ELSE MethodPush(methods, p, FunctionStatement(p))

\* Parser::classStatement after its loop
ClassEnd(name, superclass, methods) ==
    R(ClassStmt(name, superclass, methods.node),
      Consume(methods.p, "RIGHT_BRACE", "Expect '}' after class body.").p)

\* Parser::classStatement, from the superclass on
ClassSuperclass(name, superclass) ==
    ClassEnd(name, superclass.node,
        MethodLoop(<<>>,
            Consume(superclass.p, "LEFT_BRACE", "Expect '{' before class body.").p))

\* the superclass name of Parser::classStatement
SuperclassName(superToken) == R(superToken.node.lexeme, superToken.p)

\* Parser::classStatement, from the name on
ClassName(name) ==
    ClassSuperclass(name.node.lexeme,
        IF Check(name.p, "LESS")
          THEN SuperclassName(Consume(Advance(name.p), "IDENTIFIER",
                                      "Expect superclass name."))
          ELSE R("", name.p))

\* Parser::classStatement
ClassStatement(p) == ClassName(Consume(p, "IDENTIFIER", "Expect class name."))

RECURSIVE FieldLoop(_, _)
\* one field of Parser::structStatement, from its type on
FieldType(fields, fieldName, fieldType) ==
    IF Check(fieldType.p, "COMMA")
      THEN FieldLoop(Append(fields, <<fieldName, fieldType.node>>), Advance(fieldType.p))
      ELSE R(Append(fields, <<fieldName, fieldType.node>>), fieldType.p)

\* one field of Parser::structStatement, from its name on
FieldName(fields, fieldName) ==
    FieldType(fields, fieldName.node.lexeme,
        ParseType(Consume(fieldName.p, "COLON", "Expect ':' after field name.").p))

\* the do { } while (match(COMMA)) loop of Parser::structStatement
FieldLoop(fields, p) == FieldName(fields, Consume(p, "IDENTIFIER", "Expect field name."))

\* Parser::structStatement after its loop
StructEnd(name, fields) ==
    R(StructStmt(name, fields.node),
      Consume(fields.p, "RIGHT_BRACE", "Expect '}' after struct body.").p)

\* Parser::structStatement after '{'
StructFields(name, p) ==
    StructEnd(name, IF Check(p, "RIGHT_BRACE") THEN R(<<>>, p) ELSE FieldLoop(<<>>, p))

\* Parser::structStatement, from the name on
StructName(name) ==
    StructFields(name.node.lexeme,
        Consume(name.p, "LEFT_BRACE", "Expect '{' before struct body.").p)

\* Parser::structStatement
StructStatement(p) == StructName(Consume(p, "IDENTIFIER", "Expect struct name."))

\* Parser::catchStatement, from the body on
CatchBody(name, type, body) == R(CatchStmt(name, type, body.node), body.p)

\* Parser::catchStatement, from the type on
CatchType(name, type) ==
    CatchBody(name, type.node,
        BlockStatement(
            Consume(Consume(type.p, "RIGHT_PAREN", "Expect ')' after catch parameter.").p,
                    "LEFT_BRACE", "Expect '{' before catch body.").p))

\* Parser::catchStatement, from the name on
CatchName(name) == CatchType(name.node.lexeme, OptionalType(name.p))

\* Parser::catchStatement
CatchStatement(p) ==
    CatchName(Consume(Consume(p, "LEFT_PAREN", "Expect '(' after 'catch'.").p,
                      "IDENTIFIER", "Expect catch parameter name."))

\* one iteration of the loop of Parser::tryStatement, catchStatement() having
\* returned c
CatchPush(catches, c) == CatchLoop(Append(catches, c.node), c.p)

\* the while (match(CATCH)) loop of Parser::tryStatement
CatchLoop(catches, p) ==
    IF Check(p, "CATCH")
      THEN CatchPush(catches, CatchStatement(Advance(p)))
      ELSE R(catches, p)

\* Parser::finallyStatement
FinallyStatement(p) ==
    BlockStatement(Consume(p, "LEFT_BRACE", "Expect '{' before finally body.").p)

\* Parser::tryStatement, from the finally clause on
TryFinally(body, catches, finallyStmt) ==
    R(TryStmt(body, catches, finallyStmt.node), finallyStmt.p)

\* Parser::tryStatement, from the end of the catch loop on
TryCatches(body, catches) ==
    TryFinally(body, catches.node,
               IF Check(catches.p, "FINALLY") THEN FinallyStatement(Advance(catches.p))
                                              ELSE R(Null, catches.p))

\* Parser::tryStatement, from the body on
TryBody(body) == TryCatches(body.node, CatchLoop(<<>>, body.p))

\* Parser::tryStatement
TryStatement(p) ==
    TryBody(BlockStatement(Consume(p, "LEFT_BRACE", "Expect '{' before try body.").p))

\* Parser::processStatement, from the end of the body on
ProcessEnd(body) ==
    R(ProcessStmt("spawn", body.node),
      Consume(Consume(body.p, "RIGHT_PAREN", "Expect ')' after process.spawn body.").p,
              "SEMICOLON", "Expect ';' after process.spawn statement.").p)

\* the block body of Parser::processStatement: the block is parsed and dropped
ProcessBlock(block) == R(LiteralExpr("block", "block"), block.p)

\* Parser::processStatement, from the body on
ProcessBody(p) ==
    ProcessEnd(IF Check(p, "LEFT_BRACE") THEN ProcessBlock(BlockStatement(Advance(p)))
                                         ELSE Expression(p))

\* Parser::processStatement, from '(' on
ProcessLambda(p) ==
    ProcessBody(
        Consume(
            Consume(
                Consume(
                    Consume(p, "LEFT_PAREN", "Expect '(' after 'process.spawn'.").p,
                    "LEFT_PAREN", "Expect '(' after 'process.spawn'.").p,
                "RIGHT_PAREN", "Expect ')' after lambda parameters.").p,
            "ARROW", "Expect '=>' after lambda parameters.").p)

\* Parser::processStatement, from the token after '.' on
ProcessSpawn(spawnToken) ==
    ProcessLambda(IF spawnToken.node.lexeme # "spawn"
                    THEN Error(spawnToken.p, "Expect 'spawn' after 'process.'.")
                    ELSE spawnToken.p)

\* Parser::processStatement
ProcessStatement(p) ==
    ProcessSpawn(Consume(Consume(p, "DOT", "Expect '.' after 'process'.").p,
                         "IDENTIFIER", "Expect 'spawn' after 'process.'."))

\* Parser::statement
Statement(p) ==
    CASE p.currentToken.type = "LET" -> VarStatement(Advance(p))
      [] p.currentToken.type = "CONST" -> ConstStatement(Advance(p))
      [] p.currentToken.type = "FN" -> FunctionStatement(Advance(p))
      [] p.currentToken.type = "CLASS" -> ClassStatement(Advance(p))
      [] p.currentToken.type = "STRUCT" -> StructStatement(Advance(p))
      [] p.currentToken.type = "IF" -> IfStatement(Advance(p))
      [] p.currentToken.type = "WHILE" -> WhileStatement(Advance(p))
      [] p.currentToken.type = "FOR" -> ForStatement(Advance(p))
      [] p.currentToken.type = "RETURN" -> ReturnStatement(Advance(p))
      [] p.currentToken.type = "TRY" -> TryStatement(Advance(p))
      [] p.currentToken.type = "LEFT_BRACE" -> BlockStatement(Advance(p))
      [] p.currentToken.type = "PROCESS" -> ProcessStatement(Advance(p))
      [] OTHER -> ExpressionStatement(p)

\* Parser::parse as a function of the token stream, for the streams on which it
\* returns: the statement list (used to build the analyzer's and generator's input)
RECURSIVE ParseLoop(_, _)
ParsePush(stmts, s) == ParseLoop(Append(stmts, s.node), s.p)

ParseLoop(stmts, p) ==
    IF Check(p, "END_OF_FILE") THEN stmts ELSE ParsePush(stmts, Statement(p))

Parse(toks) == ParseLoop(<<>>, NewParser(toks))

RECURSIVE ParseHangsFrom(_)
\* the loop of Parser::parse after an iteration that led from p to q
ParseHangsNext(p, q) == q.stuck \/ SameInput(p, q) \/ ParseHangsFrom(q)

\* whether the loop of Parser::parse, entered in parser state p, never exits:
\* a call of statement() does not return or consumes nothing
ParseHangsFrom(p) ==
    IF Check(p, "END_OF_FILE") THEN FALSE ELSE ParseHangsNext(p, Statement(p).p)

\* whether Parser::parse returns on the token stream
ParseReturns(toks) == ~ParseHangsFrom(NewParser(toks))

(***************************************************************************)
(* ParserSpec: Parser::parse().                                            *)
(***************************************************************************)
\* the tokens the enumerated streams are made of; '(' occurs in the sample
\* streams only
ParserAlphabet ==
    { IdTok("a"), IntTok("1"), Tk("SEMICOLON"), Tk("RIGHT_PAREN"),
      Tk("LEFT_BRACE"), Tk("RIGHT_BRACE"), Tk("COLON"), Tk("ASSIGN"), Tk("LET"),
      Tk("CLASS"), Tk("DIVIDE"), Tk("DOT"), Token("ERROR", "Unexpected character") }

RECURSIVE TokenStreams(_)
TokenStreams(n) ==
    IF n = 0 THEN { <<>> }
    ELSE LET shorter == TokenStreams(n - 1) IN
         shorter \cup { Append(ts, t) : ts \in { x \in shorter : Len(x) = n - 1 },
                                         t \in ParserAlphabet }

\* `let x: int = 10;`
SrcLetXInt10 ==
    << Tk("LET"), IdTok("x"), Tk("COLON"), IdTok("int"), Tk("ASSIGN"), IntTok("10"),
       Tk("SEMICOLON") >>

\* `a.b(c);`
SrcMemberCall ==
    << IdTok("a"), Tk("DOT"), IdTok("b"), Tk("LEFT_PAREN"), IdTok("c"),
       Tk("RIGHT_PAREN"), Tk("SEMICOLON") >>

\* `5 = 3; a;`
SrcBadAssign ==
    << IntTok("5"), Tk("ASSIGN"), IntTok("3"), Tk("SEMICOLON"), IdTok("a"),
       Tk("SEMICOLON") >>

\* `a.b(c)[d];`
SrcCallIndex ==
    << IdTok("a"), Tk("DOT"), IdTok("b"), Tk("LEFT_PAREN"), IdTok("c"),
       Tk("RIGHT_PAREN"), Tk("LEFT_BRACKET"), IdTok("d"), Tk("RIGHT_BRACKET"),
       Tk("SEMICOLON") >>

\* `f().x;`
SrcCallMember ==
    << IdTok("f"), Tk("LEFT_PAREN"), Tk("RIGHT_PAREN"), Tk("DOT"), IdTok("x"),
       Tk("SEMICOLON") >>

ParserInputs ==
    TokenStreams(MaxTokens)
      \cup { SrcLetXInt10, SrcMemberCall, SrcBadAssign, SrcCallIndex, SrcCallMember }

IdleParser == [toks |-> <<>>, pos |-> 0, hadError |-> FALSE, errors |-> <<>>,
               currentToken |-> EofToken, previousToken |-> EofToken, stuck |-> FALSE]

LexIdle ==
    lexer = [idle |-> TRUE] /\ token = [idle |-> TRUE] /\ pushedBack = [idle |-> TRUE]

ParserIdle ==
    /\ parser = IdleParser /\ statements = <<>> /\ ppc = "idle"
    /\ consumed = [idle |-> TRUE]

SemaIdle ==
    /\ scopes = <<>> /\ hadErrorFlag = FALSE /\ diagnostics = <<>> /\ frames = <<>>
    /\ visited = 0 /\ spc = "idle"

GenIdle == gen = [idle |-> TRUE] /\ nameRead = "name" /\ todo = <<>>
           /\ result = [idle |-> TRUE] /\ gpc = "idle" /\ earlier = <<>>

OptIdle ==
    optimizer = [idle |-> TRUE] /\ irModule = [idle |-> TRUE] /\ rendered = <<>>

MainIdle == compiler = [idle |-> TRUE]

ParserInit ==
    /\ \E toks \in ParserInputs : parser = NewParser(toks)
    /\ statements = <<>>
    /\ ppc = "loop"
    /\ consumed = [idle |-> TRUE]
    /\ program = <<>>
    /\ LexIdle
    /\ OptIdle
    /\ MainIdle
    /\ SemaIdle
    /\ GenIdle

\* one iteration of the loop of Parser::parse: statements.push_back(statement()).
\* When a loop inside statement() cannot exit, the call never returns; when the
\* call returns without having consumed a token, the next iteration starts from
\* the same input and so does every one after it.  Either way parse() is hung.
ParseStatement ==
    /\ ppc = "loop"
    /\ ~Check(parser, "END_OF_FILE")
    /\ LET s == Statement(parser) IN
         /\ parser' = s.p
         /\ statements' = IF s.p.stuck THEN statements ELSE Append(statements, s.node)
         /\ ppc' = IF s.p.stuck \/ SameInput(parser, s.p) THEN "hung" ELSE "loop"
    /\ UNCHANGED <<mainVars, optVars, lexVars, consumed, semaVars, genVars>>

\* the loop of Parser::parse ends at END_OF_FILE and parse() returns
ParseReturn ==
    /\ ppc = "loop"
    /\ Check(parser, "END_OF_FILE")
    /\ ppc' = "done"
    /\ UNCHANGED <<mainVars, optVars, lexVars, parser, statements, consumed,
                   semaVars, genVars>>

ParserNext == ParseStatement \/ ParseReturn

ParserSpec == ParserInit /\ [][ParserNext]_vars

\* C1: Parser::parse() terminates: every call of statement() made with a
\* non-EOF current token consumes at least one token, also when that token is
\* a stray ')', '}' or ':', so parse() never hangs.
C1_ParseTerminates == ppc # "hung"

\* parse() hangs at top level on a stream that begins with a stray ')'
C1_StrayTokenHangs ==
    /\ ppc = "hung"
    /\ parser.toks = << Tk("RIGHT_PAREN") >>
    /\ ~parser.stuck
    /\ parser.pos = 1 /\ parser.currentToken = Tk("RIGHT_PAREN")

\* a.b(c)
CallOfMember ==
    CallExpr(MemberExpr(IdentifierExpr("a"), "b"), << IdentifierExpr("c") >>)

\* C17: `a.b(c);` parses to Call{Member{a, b}, [c]}; `a.b(c)[d];` and `f().x;`
\* parse to an Index and a Member node around the Call, and no syntax error
\* is reported for any of the three.
C17_PostfixChain ==
    /\ parser.toks \in { SrcMemberCall, SrcCallIndex, SrcCallMember }
         => ~parser.hadError
    /\ parser.toks = SrcMemberCall /\ ppc = "done"
         => statements = << ExpressionStmt(CallOfMember) >>
    /\ parser.toks = SrcCallIndex /\ Len(statements) >= 1
         => statements[1]
              = ExpressionStmt(IndexExpr(CallOfMember, IdentifierExpr("d")))
    /\ parser.toks = SrcCallMember /\ Len(statements) >= 1
         => statements[1]
              = ExpressionStmt(MemberExpr(CallExpr(IdentifierExpr("f"), << >>), "x"))

\* `a.b(c)[d];`: the first statement is the Call alone, and a syntax error
\* was reported at the '[' that follows it
C17_IndexAfterCallRejected ==
    /\ parser.toks = SrcCallIndex
    /\ Len(statements) >= 1
    /\ statements[1] = ExpressionStmt(CallOfMember)
    /\ parser.hadError

(***************************************************************************)
(* ConsumeSpec: Parser::consume called on its own, on a parser constructed *)
(* over a token stream, any number of times in a row.                      *)
(***************************************************************************)
\* the kinds consume() is asked for
ConsumeKinds == { "SEMICOLON", "IDENTIFIER", "END_OF_FILE" }

\* the message handed to consume()
ConsumeMessage == "Expect ';' after expression."

\* most errors reported before a further call of consume() is made
MaxErrors == 3

ConsumeAlphabet ==
    { IdTok("a"), Tk("SEMICOLON"), Tk("RIGHT_PAREN"),
      Token("ERROR", "Unexpected character") }

ConsumeInputs ==
    { ts \in TokenStreams(MaxTokens) : \A i \in 1..Len(ts) : ts[i] \in ConsumeAlphabet }

ConsumeInit ==
    /\ \E toks \in ConsumeInputs : parser = NewParser(toks)
    /\ statements = <<>>
    /\ ppc = "consume"
    /\ consumed = [idle |-> TRUE]
    /\ program = <<>>
    /\ LexIdle
    /\ OptIdle
    /\ MainIdle
    /\ SemaIdle
    /\ GenIdle

\* `consume(type, message)`
ConsumeCall ==
    /\ ppc = "consume"
    /\ Len(parser.errors) < MaxErrors
    /\ \E type \in ConsumeKinds :
         /\ parser' = Consume(parser, type, ConsumeMessage).p
         /\ consumed' = [type |-> type,
                         token |-> Consume(parser, type, ConsumeMessage).node]
    /\ UNCHANGED <<mainVars, optVars, lexVars, statements, ppc, semaVars, genVars>>

ConsumeNext == ConsumeCall

ConsumeSpec == ConsumeInit /\ [][ConsumeNext]_vars

\* index of the first token of toks at or after i that is not an ERROR token,
\* Len(toks) + 1 when there is none
RECURSIVE NextValid(_, _)
NextValid(toks, i) ==
    IF i > Len(toks) \/ toks[i].type # "ERROR" THEN i ELSE NextValid(toks, i + 1)

\* the token the lexer yields as its i-th: END_OF_FILE past the end
TokenAt(toks, i) == IF i <= Len(toks) THEN toks[i] ELSE EofToken

\* the lexemes of the tokens of toks from index i up to index j - 1
Lexemes(toks, i, j) == [k \in 1..(j - i) |-> toks[i + k - 1].lexeme]

\* the parser q and the token returned, after consume(type) on the parser p
\* whose current token has that kind: one call of advance(), which makes the
\* next token that is not an ERROR token current and reports the ERROR
\* tokens it passes
Advanced(p, q, returned, j) ==
    /\ returned = p.currentToken
    /\ q.previousToken = p.currentToken
    /\ q.currentToken = TokenAt(p.toks, j)
    /\ q.pos = IF j <= Len(p.toks) THEN j ELSE Len(p.toks)
    /\ q.errors = p.errors \o Lexemes(p.toks, p.pos + 1, j)
    /\ q.hadError = (p.hadError \/ j > p.pos + 1)

\* the same, when the current token of p has another kind
Refused(p, q, returned) ==
    /\ returned = p.currentToken
    /\ q.errors = Append(p.errors, ConsumeMessage)
    /\ q.hadError
    /\ q.currentToken = p.currentToken
    /\ q.previousToken = p.previousToken
    /\ q.pos = p.pos

ConsumeFrame(p, q, call) ==
    IF p.currentToken.type = call.type
      THEN Advanced(p, q, call.token, NextValid(p.toks, p.pos + 1))
      ELSE Refused(p, q, call.token)

EmptyTable == [n \in {} |-> ""]

Put(table, key, value) ==
    [n \in DOMAIN table \cup {key} |-> IF n = key THEN value ELSE table[n]]

\* Scope()
NewScope == [variables |-> EmptyTable, functions |-> EmptyTable, structs |-> EmptyTable]

\* reports the message and leaves the flag alone
SemaErrorNoFlag(a, message) == [a EXCEPT !.diagnostics = Append(@, message)]

\* SemanticAnalyzer::error
SemaError(a, message) ==
    [a EXCEPT !.hadError = TRUE, !.diagnostics = Append(@, message)]

\* SemanticAnalyzer::enterScope
EnterScope(a) == [a EXCEPT !.scopes = Append(@, NewScope)]

\* leaves the scope on the stack
ExitScopeKeep(a) == a

\* SemanticAnalyzer::exitScope
ExitScope(a) ==
    IF a.scopes # <<>> THEN [a EXCEPT !.scopes = SubSeq(@, 1, Len(@) - 1)] ELSE a

\* looks the name up in the innermost scope only
IsVariableDefinedHere(a, name) == name \in DOMAIN a.scopes[Len(a.scopes)].variables

\* SemanticAnalyzer::isVariableDefined
IsVariableDefined(a, name) ==
    \E i \in 1..Len(a.scopes) : name \in DOMAIN a.scopes[i].variables

\* looks the name up among the variables instead of the functions
IsFunctionDefinedAsVariable(a, name) ==
    \E i \in 1..Len(a.scopes) : name \in DOMAIN a.scopes[i].variables

\* SemanticAnalyzer::isFunctionDefined
IsFunctionDefined(a, name) ==
    \E i \in 1..Len(a.scopes) : name \in DOMAIN a.scopes[i].functions

\* SemanticAnalyzer::isStructDefined
IsStructDefined(a, name) ==
    \E i \in 1..Len(a.scopes) : name \in DOMAIN a.scopes[i].structs

\* SemanticAnalyzer::defineVariable
DefineVariable(a, name, type) ==
    IF a.scopes # <<>>
      THEN [a EXCEPT !.scopes[Len(a.scopes)].variables = Put(@, name, type)]
      ELSE a

\* SemanticAnalyzer::defineFunction
DefineFunction(a, name, returnType) ==
    IF a.scopes # <<>>
      THEN [a EXCEPT !.scopes[Len(a.scopes)].functions = Put(@, name, returnType)]
      ELSE a

\* SemanticAnalyzer::defineStruct
DefineStruct(a, name, fields) ==
    IF a.scopes # <<>>
      THEN [a EXCEPT !.scopes[Len(a.scopes)].structs = Put(@, name, fields)]
      ELSE a

\* the names the constructor registers as variables, with their types
Builtins ==
    [n \in {"print", "println", "error", "assert", "len", "toString", "parseInt",
            "parseFloat", "isNaN", "isFinite", "Math", "Date", "Array", "Object",
            "String", "Number", "Boolean", "Error"} |->
        IF n \in {"Math", "Date", "Array", "Object", "String", "Number", "Boolean",
                  "Error"}
          THEN "object" ELSE "function"]

RECURSIVE DefineAll(_, _, _)
\* defineVariable for each name of a set, with the type the table gives it
DefineAll(a, names, table) ==
    IF names = {} THEN a
    ELSE DefineAll(DefineVariable(a, CHOOSE n \in names : TRUE,
                                  table[CHOOSE n \in names : TRUE]),
                   names \ {CHOOSE n \in names : TRUE}, table)

\* SemanticAnalyzer::SemanticAnalyzer
NewSemanticAnalyzer ==
    DefineAll(EnterScope([scopes |-> <<>>, hadError |-> FALSE, diagnostics |-> <<>>]),
              DOMAIN Builtins, Builtins)

\* the innermost scope whose table (variables or functions) holds the name:
\* the scan from scopes.rbegin() stops at the first hit
Innermost(a, table, name) ==
    CHOOSE i \in 1..Len(a.scopes) :
        /\ name \in DOMAIN a.scopes[i][table]
        /\ \A j \in (i + 1)..Len(a.scopes) : name \notin DOMAIN a.scopes[j][table]

\* the result of an analyze*Expr: the type name returned and the analyzer then
T(type, a) == [type |-> type, a |-> a]

RECURSIVE AnalyzeExpression(_, _), AnalyzeArguments(_, _)

\* SemanticAnalyzer::analyzeBinaryExpr, the type returned; op is the lexeme
BinaryType(op, leftType, rightType) ==
    CASE op = "+" /\ (leftType = "string" \/ rightType = "string") -> "string"
      [] op = "+" /\ (leftType = "number" \/ rightType = "number") -> "number"
      [] op \in {"-", "*", "/", "%"} /\ (leftType = "number" \/ rightType = "number") ->
           "number"
      [] op \in {"==", "!=", "<", "<=", ">", ">"} -> "bool"
      [] op \in {"&&", "||"} -> "bool"
      [] OTHER -> leftType

\* SemanticAnalyzer::analyzeBinaryExpr, the right-operand check of && and ||
LogicalRight(op, rightType, a) ==
    IF op \in {"&&", "||"} /\ rightType \notin {"bool", "any"}
      THEN SemaError(a, <<"Logical operator '", op, "' expects boolean operands, got '",
                          rightType, "'.">>)
      ELSE a

\* SemanticAnalyzer::analyzeBinaryExpr, the left-operand check of && and ||
LogicalLeft(op, leftType, a) ==
    IF op \in {"&&", "||"} /\ leftType \notin {"bool", "any"}
      THEN SemaError(a, <<"Logical operator '", op, "' expects boolean operands, got '",
                          leftType, "'.">>)
      ELSE a

\* SemanticAnalyzer::analyzeBinaryExpr, the operand type check
BinaryMismatch(leftType, rightType, a) ==
    IF leftType # rightType /\ leftType # "any" /\ rightType # "any"
      THEN SemaError(a, <<"Type mismatch in binary expression: expected '", leftType,
                          "', got '", rightType, "'.">>)
      ELSE a

\* SemanticAnalyzer::analyzeBinaryExpr once both operands are analyzed
BinaryOperands(op, leftType, right) ==
    T(BinaryType(op, leftType, right.type),
      LogicalRight(op, right.type,
          LogicalLeft(op, leftType, BinaryMismatch(leftType, right.type, right.a))))

\* SemanticAnalyzer::analyzeBinaryExpr once the left operand is analyzed
BinaryLeft(expr, left) ==
    BinaryOperands(expr.op, left.type, AnalyzeExpression(left.a, expr.right))

\* SemanticAnalyzer::analyzeBinaryExpr
AnalyzeBinaryExpr(a, expr) == BinaryLeft(expr, AnalyzeExpression(a, expr.left))

\* SemanticAnalyzer::analyzeUnaryExpr once the operand is analyzed
UnaryOperand(op, right) ==
    CASE op = "!" ->
           T("bool", IF right.type \notin {"bool", "any"}
                       THEN SemaError(right.a, <<"Logical operator '", op,
                                "' expects boolean operand, got '", right.type, "'.">>)
                       ELSE right.a)
      [] op = "-" ->
           T("number", IF right.type \notin {"number", "any"}
                         THEN SemaError(right.a,
                                  <<"Unary operator '-' expects number operand, got '",
                                    right.type, "'.">>)
                         ELSE right.a)
      [] OTHER -> right

\* SemanticAnalyzer::analyzeUnaryExpr
AnalyzeUnaryExpr(a, expr) == UnaryOperand(expr.op, AnalyzeExpression(a, expr.right))

\* SemanticAnalyzer::analyzeLiteralExpr
AnalyzeLiteralExpr(a, expr) == T(expr.type, a)

\* SemanticAnalyzer::analyzeIdentifierExpr
AnalyzeIdentifierExpr(a, expr) ==
    CASE ~IsVariableDefined(a, expr.name) /\ ~IsFunctionDefined(a, expr.name) ->
           T("any", SemaError(a, <<"Undefined identifier '", expr.name, "'.">>))
      [] IsVariableDefined(a, expr.name) ->
           T(a.scopes[Innermost(a, "variables", expr.name)].variables[expr.name], a)
      [] OTHER ->
           T(a.scopes[Innermost(a, "functions", expr.name)].functions[expr.name], a)

\* SemanticAnalyzer::analyzeAssignExpr once the value is analyzed
AssignValue(name, value) ==
    CASE ~IsVariableDefined(value.a, name) ->
           T("any", SemaError(value.a, <<"Undefined variable '", name, "'.">>))
      [] value.a.scopes[Innermost(value.a, "variables", name)].variables[name]
             \notin {"any", value.type} ->
           T(value.type,
             SemaError(value.a,
                 <<"Type mismatch in assignment: expected '",
                   value.a.scopes[Innermost(value.a, "variables", name)].variables[name],
                   "', got '", value.type, "'.">>))
      [] OTHER -> value

\* SemanticAnalyzer::analyzeAssignExpr
AnalyzeAssignExpr(a, expr) == AssignValue(expr.name, AnalyzeExpression(a, expr.value))

\* the loop of SemanticAnalyzer::analyzeCallExpr over the arguments
AnalyzeArguments(a, arguments) ==
    IF arguments = <<>> THEN a
    ELSE AnalyzeArguments(AnalyzeExpression(a, Head(arguments)).a, Tail(arguments))

\* SemanticAnalyzer::analyzeCallExpr once the callee is analyzed
CallCallee(expr, callee) ==
    T("any",
      AnalyzeArguments(
          IF /\ expr.callee.kind = "IDENTIFIER"
             /\ ~IsFunctionDefined(callee.a, expr.callee.name)
             /\ expr.callee.name \notin {"println", "print", "error"}
            THEN SemaError(callee.a, <<"Undefined function '", expr.callee.name, "'.">>)
            ELSE callee.a,
          expr.arguments))

\* SemanticAnalyzer::analyzeCallExpr
AnalyzeCallExpr(a, expr) == CallCallee(expr, AnalyzeExpression(a, expr.callee))

\* SemanticAnalyzer::analyzeMemberExpr
AnalyzeMemberExpr(a, expr) == T("any", AnalyzeExpression(a, expr.object).a)

\* SemanticAnalyzer::analyzeThisExpr
AnalyzeThisExpr(a, expr) == T("any", a)

\* SemanticAnalyzer::analyzeGroupingExpr
AnalyzeGroupingExpr(a, expr) == AnalyzeExpression(a, expr.expression)

\* SemanticAnalyzer::analyzeExpression; a null pointer and a node kind the
\* switch does not list (IndexExpr) are "any"
AnalyzeExpression(a, expr) ==
    CASE expr.kind = "BINARY" -> AnalyzeBinaryExpr(a, expr)
      [] expr.kind = "UNARY" -> AnalyzeUnaryExpr(a, expr)
      [] expr.kind = "LITERAL" -> AnalyzeLiteralExpr(a, expr)
      [] expr.kind = "IDENTIFIER" -> AnalyzeIdentifierExpr(a, expr)
      [] expr.kind = "ASSIGN" -> AnalyzeAssignExpr(a, expr)
      [] expr.kind = "CALL" -> AnalyzeCallExpr(a, expr)
      [] expr.kind = "MEMBER" -> AnalyzeMemberExpr(a, expr)
      [] expr.kind = "THIS" -> AnalyzeThisExpr(a, expr)
      [] expr.kind = "GROUPING" -> AnalyzeGroupingExpr(a, expr)
      [] OTHER -> T("any", a)

\* the type check both declarations make of the initializer
CheckInitializer(type, init) ==
    IF type # "any" /\ init.type # type
      THEN SemaError(init.a, <<"Type mismatch: expected '", type, "', got '",
                               init.type, "'.">>)
      ELSE init.a

\* analyzeVarStatement, from the second analysis of the initializer on
VarInitialized(stmt, t) ==
    IF stmt.initializer # Null
      THEN CheckInitializer(t.type, AnalyzeExpression(t.a, stmt.initializer))
      ELSE t.a

\* analyzeConstStatement, from the second analysis of the initializer on
ConstInitialized(stmt, t) ==
    IF stmt.initializer # Null
      THEN CheckInitializer(t.type, AnalyzeExpression(t.a, stmt.initializer))
      ELSE SemaError(t.a, <<"Constant '", stmt.name, "' must be initialized.">>)

\* both declarations: defineVariable(stmt->name, type)
Declared(name, t) == T(t.type, DefineVariable(t.a, name, t.type))

\* both declarations: the check that the type is a known one
KnownType(t) ==
    IF /\ t.type \notin {"any", "int", "float", "bool", "string"}
       /\ ~IsStructDefined(t.a, t.type)
      THEN T(t.type, SemaError(t.a, <<"Unknown type '", t.type, "'.">>))
      ELSE t

\* both declarations: the annotation, else the type of the initializer
\* (analyzed here for the first time), else "any"
DeclaredType(a, stmt) ==
    CASE stmt.type # "" -> T(stmt.type, a)
      [] stmt.initializer # Null -> AnalyzeExpression(a, stmt.initializer)
      [] OTHER -> T("any", a)

\* both declarations: the check that the name is not a variable yet
NotYetDefined(a, what, name) ==
    IF IsVariableDefined(a, name)
      THEN SemaError(a, <<what, " '", name, "' is already defined.">>)
      ELSE a

RECURSIVE DefineParameters(_, _)
\* the loop of analyzeFunctionStatement over the parameters
DefineParameters(a, parameters) ==
    IF parameters = <<>> THEN a
    ELSE DefineParameters(
             DefineVariable(a, Head(parameters)[1],
                            IF Head(parameters)[2] = "" THEN "any"
                                                        ELSE Head(parameters)[2]),
             Tail(parameters))

\* analyzeFunctionStatement up to the analysis of the body
FunctionEntered(a, stmt) ==
    DefineParameters(
        EnterScope(
            DefineFunction(
                IF IsFunctionDefined(a, stmt.name)
                  THEN SemaError(a, <<"Function '", stmt.name, "' is already defined.">>)
                  ELSE a,
                stmt.name, stmt.returnType)),
        stmt.parameters)

\* analyzeClassStatement, the superclass check
SuperclassDefined(a, stmt) ==
    IF stmt.superclass # "" /\ ~IsStructDefined(a, stmt.superclass)
      THEN SemaError(a, <<"Superclass '", stmt.superclass, "' is not defined.">>)
      ELSE a

\* analyzeClassStatement up to the analysis of the methods
ClassEntered(a, stmt) ==
    EnterScope(
        SuperclassDefined(
            IF IsStructDefined(a, stmt.name)
              THEN SemaError(a, <<"Class '", stmt.name, "' is already defined.">>)
              ELSE a,
            stmt))

\* the condition check of analyzeIfStatement, analyzeWhileStatement and
\* analyzeForStatement; what is "If", "While" or "For"
Condition(what, condition) ==
    IF condition.type \notin {"bool", "any"}
      THEN SemaError(condition.a, <<what, " condition must be a boolean, got '",
                                    condition.type, "'.">>)
      ELSE condition.a

\* analyzeForStatement from the condition to the analysis of the body
ForClausesAnalyzed(a, stmt) ==
    AnalyzeExpression(
        IF stmt.condition # Null
          THEN Condition("For", AnalyzeExpression(a, stmt.condition))
          ELSE a,
        stmt.increment).a

(***************************************************************************)
(* analyze() as a state machine.  `frames` is the work analyze() has still *)
(* to do, next first: statements to hand to analyzeStatement, pending      *)
(* exitScope() calls, and the part of analyzeForStatement that follows its *)
(* initializer.  A pending exitScope() remembers, for the proofs only, the *)
(* scope stack its enterScope() found.                                     *)
(***************************************************************************)
StmtFrame(stmt) == [op |-> "stmt", stmt |-> stmt]

ExitFrame(saved) == [op |-> "exit", saved |-> saved]

ForFrame(stmt) == [op |-> "for", stmt |-> stmt]

\* one frame per statement of a list, in order
StmtFrames(stmts) == [i \in 1..Len(stmts) |-> StmtFrame(stmts[i])]

\* a frame for a child statement pointer, none when it is null
OptionalFrame(stmt) == IF stmt = Null THEN <<>> ELSE <<StmtFrame(stmt)>>

\* the analyzer object in the current state
This == [scopes |-> scopes, hadError |-> hadErrorFlag, diagnostics |-> diagnostics]

\* the statement analyzeStatement is about to dispatch on has the given kind
Dispatch(kind) ==
    /\ spc = "run"
    /\ frames # <<>>
    /\ Head(frames).op = "stmt"
    /\ Head(frames).stmt.kind = kind

\* the handler leaves the analyzer as a and the given frames in place of its own
Continue(a, pushed) ==
    /\ scopes' = a.scopes
    /\ hadErrorFlag' = a.hadError
    /\ diagnostics' = a.diagnostics
    /\ frames' = pushed \o Tail(frames)
    /\ UNCHANGED <<mainVars, optVars, lexVars, program, spc, parserVars, genVars>>

\* analyzeStatement dispatched a statement to a handler that did the above
Handled(a, pushed) == Continue(a, pushed) /\ visited' = visited + 1

AnalyzeBlockStatement ==
    /\ Dispatch("BLOCK")
    /\ Handled(EnterScope(This),
               StmtFrames(Head(frames).stmt.statements) \o <<ExitFrame(scopes)>>)

\* the exitScope() that ends analyzeBlockStatement, analyzeFunctionStatement,
\* analyzeClassStatement or analyzeCatchStatement
ExitScopeStep ==
    /\ spc = "run"
    /\ frames # <<>>
    /\ Head(frames).op = "exit"
    /\ Continue(ExitScope(This), <<>>)
    /\ UNCHANGED visited

AnalyzeVarStatement ==
    /\ Dispatch("VAR")
    /\ Handled(VarInitialized(Head(frames).stmt,
                   Declared(Head(frames).stmt.name,
                       KnownType(DeclaredType(
                           NotYetDefined(This, "Variable", Head(frames).stmt.name),
                           Head(frames).stmt)))),
               <<>>)

AnalyzeConstStatement ==
    /\ Dispatch("CONST")
    /\ Handled(ConstInitialized(Head(frames).stmt,
                   Declared(Head(frames).stmt.name,
                       KnownType(DeclaredType(
                           NotYetDefined(This, "Constant", Head(frames).stmt.name),
                           Head(frames).stmt)))),
               <<>>)

AnalyzeFunctionStatement ==
    /\ Dispatch("FUNCTION")
    /\ Handled(FunctionEntered(This, Head(frames).stmt),
               << StmtFrame(Head(frames).stmt.body),
                  ExitFrame(DefineFunction(
                      This, Head(frames).stmt.name, Head(frames).stmt.returnType).scopes) >>)

AnalyzeClassStatement ==
    /\ Dispatch("CLASS")
    /\ Handled(ClassEntered(This, Head(frames).stmt),
               StmtFrames(Head(frames).stmt.methods) \o <<ExitFrame(scopes)>>)

AnalyzeStructStatement ==
    /\ Dispatch("STRUCT")
    /\ Handled(DefineStruct(
                   IF IsStructDefined(This, Head(frames).stmt.name)
                     THEN SemaError(This, <<"Struct '", Head(frames).stmt.name,
                                            "' is already defined.">>)
                     ELSE This,
                   Head(frames).stmt.name, Head(frames).stmt.fields),
               <<>>)

AnalyzeIfStatement ==
    /\ Dispatch("IF")
    /\ Handled(Condition("If", AnalyzeExpression(This, Head(frames).stmt.condition)),
               OptionalFrame(Head(frames).stmt.thenBranch)
                   \o OptionalFrame(Head(frames).stmt.elseBranch))

AnalyzeWhileStatement ==
    /\ Dispatch("WHILE")
    /\ Handled(Condition("While", AnalyzeExpression(This, Head(frames).stmt.condition)),
               OptionalFrame(Head(frames).stmt.body))

\* analyzeForStatement up to the return of analyzeStatement(initializer), or as
\* a whole when there is no initializer
AnalyzeForStatement ==
    /\ Dispatch("FOR")
    /\ IF Head(frames).stmt.initializer # Null
         THEN Handled(This, << StmtFrame(Head(frames).stmt.initializer),
                               ForFrame(Head(frames).stmt) >>)
         ELSE Handled(ForClausesAnalyzed(This, Head(frames).stmt),
                      OptionalFrame(Head(frames).stmt.body))

\* analyzeForStatement after the initializer
AnalyzeForClauses ==
    /\ spc = "run"
    /\ frames # <<>>
    /\ Head(frames).op = "for"
    /\ Continue(ForClausesAnalyzed(This, Head(frames).stmt),
                OptionalFrame(Head(frames).stmt.body))
    /\ UNCHANGED visited

AnalyzeReturnStatement ==
    /\ Dispatch("RETURN")
    /\ Handled(AnalyzeExpression(This, Head(frames).stmt.value).a, <<>>)

AnalyzeExpressionStatement ==
    /\ Dispatch("EXPRESSION")
    /\ Handled(AnalyzeExpression(This, Head(frames).stmt.expression).a, <<>>)

AnalyzeTryStatement ==
    /\ Dispatch("TRY")
    /\ Handled(This, OptionalFrame(Head(frames).stmt.body)
                         \o StmtFrames(Head(frames).stmt.catches)
                         \o OptionalFrame(Head(frames).stmt.finally))

AnalyzeCatchStatement ==
    /\ Dispatch("CATCH")
    /\ Handled(DefineVariable(EnterScope(This), Head(frames).stmt.name,
                              IF Head(frames).stmt.type = "" THEN "Error"
                                                             ELSE Head(frames).stmt.type),
               OptionalFrame(Head(frames).stmt.body) \o <<ExitFrame(scopes)>>)

AnalyzeProcessStatement ==
    /\ Dispatch("PROCESS")
    /\ Handled(AnalyzeExpression(This, Head(frames).stmt.body).a, <<>>)

\* the loop of analyze() has run over the whole list: analyze() returns
AnalyzeReturn ==
    /\ spc = "run"
    /\ frames = <<>>
    /\ spc' = "done"
    /\ UNCHANGED <<mainVars, optVars, lexVars, scopes, hadErrorFlag, diagnostics,
                   frames, visited, program, parserVars, genVars>>

(***************************************************************************)
(* SemaSpec: SemanticAnalyzer::analyze() on the programs the parser makes  *)
(* of up to MaxProgram of the sources below, one after the other.          *)
(***************************************************************************)
\* `let x: int = 1;`
SrcLetXInt1 ==
    << Tk("LET"), IdTok("x"), Tk("COLON"), IdTok("int"), Tk("ASSIGN"), IntTok("1"),
       Tk("SEMICOLON") >>

\* `while (x < 3) { println(x); x = x + 1; }`
SrcWhile ==
    << Tk("WHILE"), Tk("LEFT_PAREN"), IdTok("x"), Tk("LESS"), IntTok("3"),
       Tk("RIGHT_PAREN"), Tk("LEFT_BRACE"), IdTok("println"), Tk("LEFT_PAREN"),
       IdTok("x"), Tk("RIGHT_PAREN"), Tk("SEMICOLON"), IdTok("x"), Tk("ASSIGN"),
       IdTok("x"), Tk("PLUS"), IntTok("1"), Tk("SEMICOLON"), Tk("RIGHT_BRACE") >>

\* `let x: int = 20;`
SrcLetXInt20 ==
    << Tk("LET"), IdTok("x"), Tk("COLON"), IdTok("int"), Tk("ASSIGN"), IntTok("20"),
       Tk("SEMICOLON") >>

\* `{ let x: int = 30; }`
SrcBlockLetX ==
    << Tk("LEFT_BRACE"), Tk("LET"), IdTok("x"), Tk("COLON"), IdTok("int"), Tk("ASSIGN"),
       IntTok("30"), Tk("SEMICOLON"), Tk("RIGHT_BRACE") >>

\* `{ let y = 1; }`
SrcBlockLetY ==
    << Tk("LEFT_BRACE"), Tk("LET"), IdTok("y"), Tk("ASSIGN"), IntTok("1"),
       Tk("SEMICOLON"), Tk("RIGHT_BRACE") >>

\* `y;`
SrcUseY == << IdTok("y"), Tk("SEMICOLON") >>

\* `fn f(a: int, b) { return a; }`
SrcFn ==
    << Tk("FN"), IdTok("f"), Tk("LEFT_PAREN"), IdTok("a"), Tk("COLON"), IdTok("int"),
       Tk("COMMA"), IdTok("b"), Tk("RIGHT_PAREN"), Tk("LEFT_BRACE"), Tk("RETURN"),
       IdTok("a"), Tk("SEMICOLON"), Tk("RIGHT_BRACE") >>

\* `f(a);`
SrcCallF ==
    << IdTok("f"), Tk("LEFT_PAREN"), IdTok("a"), Tk("RIGHT_PAREN"), Tk("SEMICOLON") >>

\* `class A { fn m() { } }`
SrcClass ==
    << Tk("CLASS"), IdTok("A"), Tk("LEFT_BRACE"), Tk("FN"), IdTok("m"), Tk("LEFT_PAREN"),
       Tk("RIGHT_PAREN"), Tk("LEFT_BRACE"), Tk("RIGHT_BRACE"), Tk("RIGHT_BRACE") >>

\* `struct S { v: int }`
SrcStruct ==
    << Tk("STRUCT"), IdTok("S"), Tk("LEFT_BRACE"), IdTok("v"), Tk("COLON"), IdTok("int"),
       Tk("RIGHT_BRACE") >>

\* `if (x >= 1) { } else { y; }`
SrcIfGreaterEqual ==
    << Tk("IF"), Tk("LEFT_PAREN"), IdTok("x"), Tk("GREATER_EQUAL"), IntTok("1"),
       Tk("RIGHT_PAREN"), Tk("LEFT_BRACE"), Tk("RIGHT_BRACE"), Tk("ELSE"),
       Tk("LEFT_BRACE"), IdTok("y"), Tk("SEMICOLON"), Tk("RIGHT_BRACE") >>

\* `for (let i = 0; i < 3; i = i + 1) { i; }`
SrcFor ==
    << Tk("FOR"), Tk("LEFT_PAREN"), Tk("LET"), IdTok("i"), Tk("ASSIGN"), IntTok("0"),
       Tk("SEMICOLON"), IdTok("i"), Tk("LESS"), IntTok("3"), Tk("SEMICOLON"), IdTok("i"),
       Tk("ASSIGN"), IdTok("i"), Tk("PLUS"), IntTok("1"), Tk("RIGHT_PAREN"),
       Tk("LEFT_BRACE"), IdTok("i"), Tk("SEMICOLON"), Tk("RIGHT_BRACE") >>

\* `try { } catch (y) { y; } finally { }`
SrcTry ==
    << Tk("TRY"), Tk("LEFT_BRACE"), Tk("RIGHT_BRACE"), Tk("CATCH"), Tk("LEFT_PAREN"),
       IdTok("y"), Tk("RIGHT_PAREN"), Tk("LEFT_BRACE"), IdTok("y"), Tk("SEMICOLON"),
       Tk("RIGHT_BRACE"), Tk("FINALLY"), Tk("LEFT_BRACE"), Tk("RIGHT_BRACE") >>

\* `process.spawn(() => x);`
SrcProcess ==
    << Tk("PROCESS"), Tk("DOT"), IdTok("spawn"), Tk("LEFT_PAREN"), Tk("LEFT_PAREN"),
       Tk("RIGHT_PAREN"), Tk("ARROW"), IdTok("x"), Tk("RIGHT_PAREN"), Tk("SEMICOLON") >>

\* `const c = 1;`
SrcConst == << Tk("CONST"), IdTok("c"), Tk("ASSIGN"), IntTok("1"), Tk("SEMICOLON") >>

\* `let w;`
SrcLetW == << Tk("LET"), IdTok("w"), Tk("SEMICOLON") >>

\* `let z: int = w;`
SrcLetZIntW ==
    << Tk("LET"), IdTok("z"), Tk("COLON"), IdTok("int"), Tk("ASSIGN"), IdTok("w"),
       Tk("SEMICOLON") >>

\* `let u = q + 1;`
SrcLetUQ ==
    << Tk("LET"), IdTok("u"), Tk("ASSIGN"), IdTok("q"), Tk("PLUS"), IntTok("1"),
       Tk("SEMICOLON") >>

\* `let print = 1;`
SrcLetPrint == << Tk("LET"), IdTok("print"), Tk("ASSIGN"), IntTok("1"), Tk("SEMICOLON") >>

\* `println(z);`
SrcPrintlnZ ==
    << IdTok("println"), Tk("LEFT_PAREN"), IdTok("z"), Tk("RIGHT_PAREN"),
       Tk("SEMICOLON") >>

\* `class A { }`
SrcClassA == << Tk("CLASS"), IdTok("A"), Tk("LEFT_BRACE"), Tk("RIGHT_BRACE") >>

\* `class B < A { }`
SrcClassBOfA ==
    << Tk("CLASS"), IdTok("B"), Tk("LESS"), IdTok("A"), Tk("LEFT_BRACE"),
       Tk("RIGHT_BRACE") >>

\* `let b = c;`
SrcLetBC == << Tk("LET"), IdTok("b"), Tk("ASSIGN"), IdTok("c"), Tk("SEMICOLON") >>

\* `let b: int = c;`
SrcLetBIntC ==
    << Tk("LET"), IdTok("b"), Tk("COLON"), IdTok("int"), Tk("ASSIGN"), IdTok("c"),
       Tk("SEMICOLON") >>

SourcePool ==
    { SrcLetXInt1, SrcWhile, SrcLetXInt10, SrcLetXInt20, SrcBlockLetX, SrcBlockLetY,
      SrcUseY, SrcFn, SrcCallF, SrcClass, SrcStruct, SrcIfGreaterEqual, SrcFor, SrcTry,
      SrcProcess, SrcConst, SrcLetW, SrcLetZIntW, SrcLetUQ, SrcLetPrint, SrcPrintlnZ,
      SrcClassA, SrcClassBOfA, SrcLetBC, SrcLetBIntC }

RECURSIVE Sources(_)
\* the token streams of up to n pool sources, one after the other
Sources(n) ==
    IF n = 0 THEN { <<>> }
    ELSE Sources(n - 1) \cup { s \o t : s \in Sources(n - 1), t \in SourcePool }

SemaInit ==
    /\ \E src \in Sources(MaxProgram) : ParseReturns(src) /\ program = Parse(src)
    /\ scopes = NewSemanticAnalyzer.scopes
    /\ hadErrorFlag = NewSemanticAnalyzer.hadError
    /\ diagnostics = NewSemanticAnalyzer.diagnostics
    /\ frames = StmtFrames(program)
    /\ visited = 0
    /\ spc = "run"
    /\ LexIdle
    /\ OptIdle
    /\ MainIdle
    /\ ParserIdle
    /\ GenIdle

SemaNext ==
    \/ AnalyzeBlockStatement
    \/ ExitScopeStep
    \/ AnalyzeVarStatement
    \/ AnalyzeConstStatement
    \/ AnalyzeFunctionStatement
    \/ AnalyzeClassStatement
    \/ AnalyzeStructStatement
    \/ AnalyzeIfStatement
    \/ AnalyzeWhileStatement
    \/ AnalyzeForStatement
    \/ AnalyzeForClauses
    \/ AnalyzeReturnStatement
    \/ AnalyzeExpressionStatement
    \/ AnalyzeTryStatement
    \/ AnalyzeCatchStatement
    \/ AnalyzeProcessStatement
    \/ AnalyzeReturn

SemaSpec == SemaInit /\ [][SemaNext]_vars

(***************************************************************************)
(* Properties of the semantic analysis                                     *)
(***************************************************************************)
\* how many times message m was reported
Count(seq, m) == Cardinality({ i \in DOMAIN seq : seq[i] = m })

Reported(m) == Count(diagnostics', m) - Count(diagnostics, m)

AlreadyDefined(what, name) == << what, " '", name, "' is already defined." >>

UndefinedIdentifier(name) == << "Undefined identifier '", name, "'." >>

\* the statement the analyzer is about to handle
Current == Head(frames).stmt

DeclarationStep == Dispatch("VAR") \/ Dispatch("CONST")

DeclarationWhat == IF Current.kind = "VAR" THEN "Variable" ELSE "Constant"

\* C4: analyzing the parsed program `let x:int=1; while(x<3){ println(x); x=x+1; }`
\* leaves hadError() false.
C4_IntProgramHasNoError ==
    (spc = "done" /\ program = Parse(SrcLetXInt1 \o SrcWhile)) => ~hadErrorFlag

\* the analysis of that program has ended with the annotation 'int' set
\* against the literal's type 'number'
C4_IntLiteralMismatch ==
    /\ spc = "done"
    /\ program = Parse(SrcLetXInt1 \o SrcWhile)
    /\ hadErrorFlag
    /\ diagnostics[1] = << "Type mismatch: expected '", "int", "', got '", "number", "'." >>

\* the type the initializer of the current declaration has once the name is defined
InitializerType ==
    AnalyzeExpression([scopes |-> scopes', hadError |-> FALSE, diagnostics |-> <<>>],
                      Current.initializer).type

\* an expression statement that assigns to a variable that is defined
AssignmentStep ==
    /\ Dispatch("EXPRESSION")
    /\ Current.expression.kind = "ASSIGN"
    /\ \E i \in DOMAIN scopes : Current.expression.name \in DOMAIN scopes[i].variables

\* the type the assigned variable was defined with
VariableType ==
    scopes[Innermost(This, "variables", Current.expression.name)]
        .variables[Current.expression.name]

\* the type of the assigned value
ValueType == AnalyzeExpression(This, Current.expression.value).type

\* C5: a declaration with both a type annotation and an initializer, and an
\* assignment to a defined variable, report a type mismatch exactly when the
\* two type names differ and neither is "any".
C5_MismatchIffNeitherAny ==
    /\ [][(DeclarationStep /\ Current.type # "" /\ Current.initializer # Null) =>
            ((Reported(<< "Type mismatch: expected '", Current.type, "', got '",
                          InitializerType, "'." >>) > 0)
               <=> (/\ Current.type # InitializerType
                    /\ Current.type # "any"
                    /\ InitializerType # "any"))]_vars
    /\ [][AssignmentStep =>
            ((Reported(<< "Type mismatch in assignment: expected '", VariableType,
                          "', got '", ValueType, "'." >>) > 0)
               <=> (/\ VariableType # ValueType
                    /\ VariableType # "any"
                    /\ ValueType # "any"))]_vars

\* `let w; let z: int = w;` has reported a mismatch against the type 'any'
C5_AnyIntoIntReported ==
    /\ spc = "done"
    /\ program = Parse(SrcLetW \o SrcLetZIntW)
    /\ diagnostics = << << "Type mismatch: expected '", "int", "', got '", "any", "'." >> >>

ComparisonOperators == { "==", "!=", "<", "<=", ">", ">=" }

ConditionStep == Dispatch("IF") \/ Dispatch("WHILE")

MustBeBoolean(t) ==
    << IF Current.kind = "IF" THEN "If" ELSE "While",
       " condition must be a boolean, got '", t, "'." >>

\* C6: a comparison used as an if or while condition has type "bool", whatever
\* its operands are, and never reports 'condition must be a boolean'.
C6_ComparisonConditionIsBool ==
    [][(/\ ConditionStep
        /\ Current.condition.kind = "BINARY"
        /\ Current.condition.op \in ComparisonOperators) =>
         (/\ AnalyzeExpression(This, Current.condition).type = "bool"
          /\ \A t \in { "int", "number", "string", "any", "bool" } :
                Reported(MustBeBoolean(t)) = 0)]_vars

\* `let x: int = 1; if (x >= 1) { } else { y; }` has reported that its
\* condition is no boolean
C6_GreaterEqualNotBool ==
    /\ spc = "done"
    /\ program = Parse(SrcLetXInt1 \o SrcIfGreaterEqual)
    /\ Count(diagnostics, << "If", " condition must be a boolean, got '", "int", "'." >>) = 1

C8_ShadowingAllowed ==
    [][(/\ Dispatch("VAR")
        /\ Len(scopes) > 1
        /\ Current.name \notin DOMAIN scopes[Len(scopes)].variables
        /\ \E i \in 1..(Len(scopes) - 1) : Current.name \in DOMAIN scopes[i].variables) =>
         Reported(AlreadyDefined("Variable", Current.name)) = 0]_vars

\* `let x: int = 10; { let x: int = 30; }` has reported the inner declaration
C8_ShadowingReported ==
    /\ spc = "done"
    /\ program = Parse(SrcLetXInt10 \o SrcBlockLetX)
    /\ Count(diagnostics, AlreadyDefined("Variable", "x")) = 1

ExitFrames == { i \in DOMAIN frames : frames[i].op = "exit" }

\* the scope stack is never empty, it holds one scope for each block, function
\* body or catch body that is open, and what was in scope when one of them was
\* entered is untouched below it
ScopesBalanced ==
    /\ Len(scopes) = 1 + Cardinality(ExitFrames)
    /\ \A i \in ExitFrames :
          /\ Len(frames[i].saved) <= Len(scopes)
          /\ SubSeq(scopes, 1, Len(frames[i].saved)) = frames[i].saved
    /\ spc = "done" => Len(scopes) = 1

\* C9: enterScope and exitScope are balanced over any statement tree: the scope
\* stack is never empty during the analysis, it holds the single global scope
\* after analyze(), and leaving a block, function body or catch body drops
\* every name that was defined inside it.
C9_ScopesBalanced ==
    /\ []ScopesBalanced
    /\ [][ExitScopeStep => scopes' = Head(frames).saved]_vars

\* `{ let y = 1; } y;` is analyzed: y is undefined after the block
C9_BlockNameDropped ==
    /\ spc = "done"
    /\ program = Parse(SrcBlockLetY \o SrcUseY)
    /\ Count(diagnostics, UndefinedIdentifier("y")) = 1
    /\ Len(scopes) = 1
    /\ "y" \notin DOMAIN scopes[1].variables

RECURSIVE CountStatements(_)
RECURSIVE CountAll(_)
\* the statements of a list and all the statements inside them
CountAll(stmts) ==
    IF stmts = <<>> THEN 0 ELSE CountStatements(Head(stmts)) + CountAll(Tail(stmts))

CountStatements(stmt) ==
    CASE stmt.kind = "BLOCK" -> 1 + CountAll(stmt.statements)
      [] stmt.kind = "FUNCTION" -> 1 + CountStatements(stmt.body)
      [] stmt.kind = "CLASS" -> 1 + CountAll(stmt.methods)
      [] stmt.kind = "IF" ->
           1 + CountStatements(stmt.thenBranch) + CountStatements(stmt.elseBranch)
      [] stmt.kind = "WHILE" -> 1 + CountStatements(stmt.body)
      [] stmt.kind = "FOR" ->
           1 + CountStatements(stmt.initializer) + CountStatements(stmt.body)
      [] stmt.kind = "TRY" ->
           1 + CountStatements(stmt.body) + CountAll(stmt.catches)
             + CountStatements(stmt.finally)
      [] stmt.kind = "CATCH" -> 1 + CountStatements(stmt.body)
      [] stmt.kind = "null" -> 0
      [] OTHER -> 1

\* C10: analyze() visits every statement of the program whatever errors came
\* before, _hadError never goes back to false, and hadError() is true exactly
\* when at least one semantic error was reported.
C10_AllVisitedErrorSticky ==
    /\ [](hadErrorFlag <=> diagnostics # <<>>)
    /\ [][hadErrorFlag => hadErrorFlag']_vars
    /\ [](spc = "done" => visited = CountAll(program))

\* `let u = q + 1; while (x < 3) { println(x); x = x + 1; }`: the first
\* statement has an error and the loop after it is analyzed all the same
C10_AnalyzedPastError ==
    /\ spc = "done"
    /\ program = Parse(SrcLetUQ \o SrcWhile)
    /\ diagnostics[1] = UndefinedIdentifier("q")
    /\ UndefinedIdentifier("x") \in { diagnostics[i] : i \in DOMAIN diagnostics }
    /\ hadErrorFlag
    /\ visited = 5

UndefinedFunction(name) == << "Undefined function '", name, "'." >>

\* an expression statement that is a call of a name, with no call among its
\* arguments
CallStep ==
    /\ Dispatch("EXPRESSION")
    /\ Current.expression.kind = "CALL"
    /\ Current.expression.callee.kind = "IDENTIFIER"
    /\ \A i \in DOMAIN Current.expression.arguments :
          Current.expression.arguments[i].kind # "CALL"

\* C11: a call of a name reports 'Undefined function' exactly when the name is
\* in the function table of no scope and is none of println, print, error;
\* `println(z);` with z undefined reports one error in all, the 'Undefined
\* identifier' of z.
C11_UndefinedFunctionIff ==
    /\ [][CallStep =>
            Reported(UndefinedFunction(Current.expression.callee.name)) =
              IF /\ \A i \in DOMAIN scopes :
                      Current.expression.callee.name \notin DOMAIN scopes[i].functions
                 /\ Current.expression.callee.name \notin { "println", "print", "error" }
              THEN 1 ELSE 0]_vars
    /\ [](spc = "done" /\ program = Parse(SrcPrintlnZ) =>
            diagnostics = << UndefinedIdentifier("z") >>)

\* `f(a); println(z);` is analyzed: the call of f is reported, the call of
\* println is not
C11_CallsAnalyzed ==
    /\ spc = "done"
    /\ program = Parse(SrcCallF \o SrcPrintlnZ)
    /\ Count(diagnostics, UndefinedFunction("f")) = 1
    /\ Count(diagnostics, UndefinedFunction("println")) = 0
    /\ Count(diagnostics, UndefinedIdentifier("z")) = 1

(***************************************************************************)
(* The code generator (compiler/middleend/codegen.cpp).  The generator is  *)
(* a record g that the visit operators thread through the tree; a value    *)
(* of an expression is V(name, g), the name of the instruction that holds  *)
(* it and the generator after the expression is lowered.                   *)
(***************************************************************************)
\* CodeGenerator::generateInstrName: "%instr" and the counter
InstrName(n) == << "%instr", n >>

\* CodeGenerator::generateBlockName: "block" and the counter
BlockName(n) == << "block", n >>

\* what the read of a name through the moved-from pointer yields when it
\* yields a string at all: the name of no instruction
Garbage == << "garbage" >>

\* the outcomes of `return instr->name` after std::move(instr)
NameReads == { "name", "garbage", "crash" }

Module(name) == [name |-> name, functions |-> <<>>]

Function(name, returnType) == [name |-> name, returnType |-> returnType, blocks |-> <<>>]

BasicBlock(name) == [name |-> name, instructions |-> <<>>]

\* the empty string as a name: a name is the sequence of its pieces
NoName == << >>

ConstInst(type, value) == [op |-> "Const", name |-> NoName, type |-> type, value |-> value]

BinaryInst(opcode, type, left, right) ==
    [op |-> "Binary", name |-> NoName, opcode |-> opcode, type |-> type, left |-> left,
     right |-> right]

UnaryInst(opcode, type, operand) ==
    [op |-> "Unary", name |-> NoName, opcode |-> opcode, type |-> type, operand |-> operand]

CallInst(returnType, funcName, arguments) ==
    [op |-> "Call", name |-> NoName, type |-> returnType, funcName |-> funcName,
     arguments |-> arguments]

AllocaInst(type) == [op |-> "Alloca", name |-> NoName, type |-> type]

LoadInst(type, pointer) == [op |-> "Load", name |-> NoName, type |-> type, pointer |-> pointer]

StoreInst(type, value, pointer) ==
    [op |-> "Store", type |-> type, value |-> value, pointer |-> pointer]

CondBrInst(condition, trueBlock, falseBlock) ==
    [op |-> "CondBr", condition |-> condition, trueBlock |-> trueBlock,
     falseBlock |-> falseBlock]

BrInst(targetBlock) == [op |-> "Br", targetBlock |-> targetBlock]

RetInst(returnType, value) == [op |-> "Ret", type |-> returnType, value |-> value]

\* CodeGenerator::CodeGenerator
NewCodeGenerator ==
    [module |-> Null, currentFunction |-> Null, currentBlock |-> Null,
     variableMap |-> EmptyTable, instrCount |-> 0, blockCount |-> 0, crashed |-> FALSE]

V(name, g) == [name |-> name, g |-> g]

\* the process dies at a read through a null pointer
Crash(g) == [g EXCEPT !.crashed = TRUE]

\* BasicBlock::addInstruction on the block of that name
AppendTo(blocks, name, instr) ==
    [i \in DOMAIN blocks |->
        IF blocks[i].name = name
          THEN [blocks[i] EXCEPT !.instructions = Append(@, instr)]
          ELSE blocks[i]]

\* currentBlock->addInstruction(std::move(instr))
AddInstruction(g, instr) ==
    IF g.crashed THEN g
    ELSE [g EXCEPT !.currentFunction.blocks = AppendTo(@, g.currentBlock, instr)]

\* `return instr->name` of the create functions, after the instruction was moved
\* into the block: the read goes through a null pointer
ReturnName(g, name) ==
    CASE nameRead = "name" -> V(name, g)
      [] nameRead = "garbage" -> V(Garbage, g)
      [] OTHER -> V(Garbage, Crash(g))

\* the body the create functions of a named instruction share
Named(g, instr) ==
    IF g.crashed THEN V(Garbage, g)
    ELSE ReturnName(AddInstruction([g EXCEPT !.instrCount = @ + 1],
                                   [instr EXCEPT !.name = InstrName(g.instrCount)]),
                    InstrName(g.instrCount))

CreateConstant(g, type, value) == Named(g, ConstInst(type, value))

CreateBinaryOp(g, opcode, type, left, right) ==
    Named(g, BinaryInst(opcode, type, left, right))

CreateUnaryOp(g, opcode, type, operand) == Named(g, UnaryInst(opcode, type, operand))

CreateCall(g, returnType, funcName, arguments) ==
    Named(g, CallInst(returnType, funcName, arguments))

CreateAlloca(g, type) == Named(g, AllocaInst(type))

CreateLoad(g, type, pointer) == Named(g, LoadInst(type, pointer))

CreateStore(g, type, value, pointer) == AddInstruction(g, StoreInst(type, value, pointer))

CreateCondBr(g, condition, trueBlock, falseBlock) ==
    AddInstruction(g, CondBrInst(condition, trueBlock, falseBlock))

CreateBr(g, targetBlock) == AddInstruction(g, BrInst(targetBlock))

CreateRet(g, returnType, value) == AddInstruction(g, RetInst(returnType, value))

\* n times generateBlockName and Function::addBasicBlock
AddBlocks(g, n) ==
    [g EXCEPT !.blockCount = @ + n,
              !.currentFunction.blocks =
                  @ \o [i \in 1..n |-> BasicBlock(BlockName(g.blockCount + i - 1))]]

RECURSIVE VisitExpression(_, _)
RECURSIVE VisitArguments(_, _, _)

\* the opcode chain of CodeGenerator::visitBinaryExpr
BinaryOpCode(op) ==
    CASE op = "+" -> "ADD"
      [] op = "-" -> "SUB"
      [] op = "*" -> "MUL"
      [] op = "/" -> "DIV"
      [] op = "%" -> "MOD"
      [] op = "==" -> "EQ"
      [] op = "!=" -> "NE"
      [] op = "<" -> "LT"
      [] op = "<=" -> "LE"
      [] op = ">" -> "GT"
      [] op = ">=" -> "GE"
      [] op = "&&" -> "AND"
      [] op = "||" -> "OR"
      [] OTHER -> "ADD"

\* CodeGenerator::visitBinaryExpr, once both operands are lowered
BinaryLowered(expr, left, right) ==
    CreateBinaryOp(right.g, BinaryOpCode(expr.op), "INT32", left.name, right.name)

\* CodeGenerator::visitBinaryExpr, from the right operand on
BinaryRightOperand(expr, left) ==
    BinaryLowered(expr, left, VisitExpression(left.g, expr.right))

\* CodeGenerator::visitBinaryExpr
VisitBinaryExpr(g, expr) == BinaryRightOperand(expr, VisitExpression(g, expr.left))

\* the opcode chain of CodeGenerator::visitUnaryExpr
UnaryOpCode(op) ==
    CASE op = "!" -> "NOT"
      [] op = "-" -> "SUB"
      [] OTHER -> "NOT"

\* CodeGenerator::visitUnaryExpr, once the operand is lowered
UnaryOperandLowered(expr, operand) ==
    CreateUnaryOp(operand.g, UnaryOpCode(expr.op), "INT32", operand.name)

\* CodeGenerator::visitUnaryExpr
VisitUnaryExpr(g, expr) == UnaryOperandLowered(expr, VisitExpression(g, expr.right))

\* the type chain of CodeGenerator::visitLiteralExpr
LiteralType(type) ==
    CASE type = "number" -> "INT32"
      [] type = "string" -> "POINTER"
      [] type = "bool" -> "BOOL"
      [] OTHER -> "INT32"

\* CodeGenerator::visitLiteralExpr
VisitLiteralExpr(g, expr) == CreateConstant(g, LiteralType(expr.type), expr.value)

\* CodeGenerator::visitIdentifierExpr
VisitIdentifierExpr(g, expr) ==
    IF expr.name \in DOMAIN g.variableMap
      THEN CreateLoad(g, "INT32", g.variableMap[expr.name])
      ELSE CreateConstant(g, "INT32", "0")

\* CodeGenerator::visitAssignExpr, the branch of a name that is not in the map
AssignAlloca(name, value, alloca) ==
    [CreateStore(alloca.g, "INT32", value, alloca.name)
        EXCEPT !.variableMap = Put(@, name, alloca.name)]

\* CodeGenerator::visitAssignExpr, once the value is lowered
AssignStore(expr, value) ==
    V(value.name,
      IF expr.name \in DOMAIN value.g.variableMap
        THEN CreateStore(value.g, "INT32", value.name, value.g.variableMap[expr.name])
        ELSE AssignAlloca(expr.name, value.name, CreateAlloca(value.g, "INT32")))

\* CodeGenerator::visitAssignExpr
VisitAssignExpr(g, expr) == AssignStore(expr, VisitExpression(g, expr.value))

\* the format string println passes to printf for its first argument
PrintlnFormat(arg) ==
    IF arg.kind = "LITERAL" /\ arg.type = "string" THEN "%s\n" ELSE "%d\n"

\* CodeGenerator::visitCallExpr, the printf call of a println with an argument
PrintlnCall(format, value) ==
    CreateCall(value.g, "INT32", "printf", << format.name, value.name >>)

\* CodeGenerator::visitCallExpr, println with an argument, from the argument on
PrintlnArgument(arg, format) == PrintlnCall(format, VisitExpression(format.g, arg))

\* CodeGenerator::visitCallExpr, println without arguments
PrintlnEmpty(newline) == CreateCall(newline.g, "INT32", "printf", << newline.name >>)

\* CodeGenerator::visitCallExpr, the branch of println
VisitPrintln(g, expr) ==
    IF expr.arguments # <<>>
      THEN PrintlnArgument(expr.arguments[1],
                           CreateConstant(g, "POINTER", PrintlnFormat(expr.arguments[1])))
      ELSE PrintlnEmpty(CreateConstant(g, "POINTER", "\n"))

\* arguments.push_back(visitExpression(arg))
ArgumentPush(names, arguments, value) ==
    VisitArguments(value.g, Tail(arguments), Append(names, value.name))

\* the loop of CodeGenerator::visitCallExpr over the arguments
VisitArguments(g, arguments, names) ==
    IF arguments = <<>> THEN V(names, g)
    ELSE ArgumentPush(names, arguments, VisitExpression(g, Head(arguments)))

\* CodeGenerator::visitCallExpr, the call of a function by its name
NamedCall(funcName, arguments) == CreateCall(arguments.g, "INT32", funcName, arguments.name)

\* CodeGenerator::visitCallExpr
VisitCallExpr(g, expr) ==
    CASE expr.callee.kind # "IDENTIFIER" -> CreateCall(g, "INT32", "printf", <<>>)
      [] expr.callee.name = "println" -> VisitPrintln(g, expr)
      [] OTHER -> NamedCall(expr.callee.name, VisitArguments(g, expr.arguments, <<>>))

\* CodeGenerator::visitMemberExpr
VisitMemberExpr(g, expr) == VisitExpression(g, expr.object)

\* CodeGenerator::visitGroupingExpr
VisitGroupingExpr(g, expr) == VisitExpression(g, expr.expression)

\* CodeGenerator::visitExpression; expr->getType() on a null child is a call
\* through a null pointer
VisitExpression(g, expr) ==
    IF g.crashed THEN V(Garbage, g)
    ELSE CASE expr.kind = "null" -> V(Garbage, Crash(g))
           [] expr.kind = "BINARY" -> VisitBinaryExpr(g, expr)
           [] expr.kind = "UNARY" -> VisitUnaryExpr(g, expr)
           [] expr.kind = "LITERAL" -> VisitLiteralExpr(g, expr)
           [] expr.kind = "IDENTIFIER" -> VisitIdentifierExpr(g, expr)
           [] expr.kind = "ASSIGN" -> VisitAssignExpr(g, expr)
           [] expr.kind = "CALL" -> VisitCallExpr(g, expr)
           [] expr.kind = "MEMBER" -> VisitMemberExpr(g, expr)
           [] expr.kind = "GROUPING" -> VisitGroupingExpr(g, expr)
           [] OTHER -> CreateConstant(g, "INT32", "0")

\* CodeGenerator::visitVarStmt, the initializer
VarLowered(g, stmt) ==
    IF stmt.initializer # Null THEN VisitExpression(g, stmt.initializer)
    ELSE CreateConstant(g, "INT32", "0")

\* CodeGenerator::visitVarStmt, once the slot is allocated
VarStore(name, initializer, alloca) ==
    [CreateStore(alloca.g, "INT32", initializer, alloca.name)
        EXCEPT !.variableMap = Put(@, name, alloca.name)]

\* CodeGenerator::visitVarStmt, once the initializer is lowered
VarAlloca(name, initializer) ==
    VarStore(name, initializer.name, CreateAlloca(initializer.g, "INT32"))

\* CodeGenerator::visitConstStmt, the initializer
ConstLowered(g, stmt) ==
    IF stmt.initializer # Null THEN VisitExpression(g, stmt.initializer)
    ELSE CreateConstant(g, "INT32", "0")

\* CodeGenerator::visitConstStmt, once the slot is allocated
ConstStore(name, initializer, alloca) ==
    [CreateStore(alloca.g, "INT32", initializer, alloca.name)
        EXCEPT !.variableMap = Put(@, name, alloca.name)]

\* CodeGenerator::visitConstStmt, once the initializer is lowered
ConstAlloca(name, initializer) ==
    ConstStore(name, initializer.name, CreateAlloca(initializer.g, "INT32"))

\* createRet(Type::INT32, value)
RetValue(value) == CreateRet(value.g, "INT32", value.name)

\* a visitFunctionStmt that lowers the body with the variables of the
\* enclosing function
FunctionOpenedWithOuterMap(g, stmt) ==
    [g EXCEPT !.currentFunction =
                  [Function(stmt.name, "INT32")
                      EXCEPT !.blocks = << BasicBlock(BlockName(g.blockCount)) >>],
              !.currentBlock = BlockName(g.blockCount),
              !.blockCount = @ + 1]

\* CodeGenerator::visitFunctionStmt, up to the visit of the body
FunctionOpened(g, stmt) ==
    [g EXCEPT !.currentFunction =
                  [Function(stmt.name, "INT32")
                      EXCEPT !.blocks = << BasicBlock(BlockName(g.blockCount)) >>],
              !.currentBlock = BlockName(g.blockCount),
              !.blockCount = @ + 1,
              !.variableMap = EmptyTable]

\* CodeGenerator::visitFunctionStmt, after the final createRet
FunctionRestored(g, frame) ==
    IF g.crashed THEN g
    ELSE [g EXCEPT !.module.functions = Append(@, g.currentFunction),
                   !.currentFunction = frame.oldFunction,
                   !.currentBlock = frame.oldBlock,
                   !.variableMap = frame.oldVariableMap]

\* CodeGenerator::visitIfStmt, once the condition is lowered
IfBlocks(condition, count) ==
    [CreateCondBr(AddBlocks(condition.g, 3), condition.name, BlockName(count),
                  BlockName(count + 1))
        EXCEPT !.currentBlock = BlockName(count)]

\* createBr(target); currentBlock = next
BrThen(g, target, next) == [CreateBr(g, target) EXCEPT !.currentBlock = next]

\* CodeGenerator::visitWhileStmt, once the condition is lowered
WhileTest(condition, bodyBlock, mergeBlock) ==
    [CreateCondBr(condition.g, condition.name, bodyBlock, mergeBlock)
        EXCEPT !.currentBlock = bodyBlock]

\* CodeGenerator::visitWhileStmt, from the new blocks to the visit of the body
WhileEntered(g, stmt) ==
    WhileTest(
        VisitExpression(BrThen(AddBlocks(g, 3), BlockName(g.blockCount),
                               BlockName(g.blockCount)),
                        stmt.condition),
        BlockName(g.blockCount + 1), BlockName(g.blockCount + 2))

\* CodeGenerator::visitForStmt, once the condition is lowered
ForTest(condition, bodyBlock, mergeBlock) ==
    [CreateCondBr(condition.g, condition.name, bodyBlock, mergeBlock)
        EXCEPT !.currentBlock = bodyBlock]

\* CodeGenerator::visitForStmt, from the new blocks to the visit of the body
ForEntered(g, stmt) ==
    ForTest(
        VisitExpression(BrThen(AddBlocks(g, 4), BlockName(g.blockCount),
                               BlockName(g.blockCount)),
                        stmt.condition),
        BlockName(g.blockCount + 1), BlockName(g.blockCount + 3))

\* CodeGenerator::visitForStmt, after the body
ForIncremented(g, frame) ==
    BrThen(VisitExpression(BrThen(g, frame.incrementBlock, frame.incrementBlock),
                           frame.stmt.increment).g,
           frame.conditionBlock, frame.mergeBlock)

\* CodeGenerator::generate, from the final createRet on
Generated(g) ==
    IF g.crashed THEN g
    ELSE [g EXCEPT !.module = Null, !.currentFunction = Null]

\* the Module that CodeGenerator::generate returns
Returned(g) == [g.module EXCEPT !.functions = Append(@, g.currentFunction)]

\* what visitStatement and its callers have still to do, innermost first
GenStmtFrame(stmt) == [op |-> "stmt", stmt |-> stmt]

GenStmtFrames(stmts) == [i \in DOMAIN stmts |-> GenStmtFrame(stmts[i])]

\* the locals of visitFunctionStmt: oldFunction, oldBlock, oldVariableMap
FunctionFrame(g) ==
    [op |-> "function", oldFunction |-> g.currentFunction, oldBlock |-> g.currentBlock,
     oldVariableMap |-> g.variableMap]

\* the locals of visitIfStmt after the then branch
ElseFrame(stmt, count) ==
    [op |-> "else", stmt |-> stmt, elseBlock |-> BlockName(count + 1),
     mergeBlock |-> BlockName(count + 2)]

MergeFrame(mergeBlock) == [op |-> "merge", mergeBlock |-> mergeBlock]

\* the locals of visitWhileStmt after the body
WhileFrame(count) ==
    [op |-> "while", conditionBlock |-> BlockName(count), mergeBlock |-> BlockName(count + 2)]

\* visitForStmt after its initializer
LoopFrame(stmt) == [op |-> "loop", stmt |-> stmt]

\* the locals of visitForStmt after the body
IncrementFrame(stmt, count) ==
    [op |-> "increment", stmt |-> stmt, conditionBlock |-> BlockName(count),
     incrementBlock |-> BlockName(count + 2), mergeBlock |-> BlockName(count + 3)]

GenOptionalFrame(stmt) == IF stmt = Null THEN <<>> ELSE << GenStmtFrame(stmt) >>

\* visitStatement is about to dispatch a statement of that kind
Visiting(kind) ==
    /\ gpc = "run"
    /\ todo # <<>>
    /\ Head(todo).op = "stmt"
    /\ Head(todo).stmt.kind = kind

\* a frame of that kind is on top
Resuming(op) ==
    /\ gpc = "run"
    /\ todo # <<>>
    /\ Head(todo).op = op

\* the generator after a step, with what the step leaves to do
Lowered(g, pushed) ==
    /\ gen' = g
    /\ todo' = pushed \o Tail(todo)
    /\ gpc' = IF g.crashed THEN "crashed" ELSE "run"
    /\ UNCHANGED <<mainVars, optVars, lexVars, nameRead, result, earlier, parserVars,
                   semaVars>>

\* CodeGenerator::generate, up to the loop over the statements
Generate ==
    /\ gpc = "new"
    /\ gen' = [gen EXCEPT !.module = Module("main"),
                          !.currentFunction =
                              [Function("main", "INT32")
                                  EXCEPT !.blocks = << BasicBlock(BlockName(gen.blockCount)) >>],
                          !.currentBlock = BlockName(gen.blockCount),
                          !.blockCount = @ + 1]
    /\ todo' = GenStmtFrames(program)
    /\ gpc' = "run"
    /\ UNCHANGED <<mainVars, optVars, lexVars, nameRead, result, earlier, parserVars,
                   semaVars>>

VisitExpressionStmt ==
    /\ Visiting("EXPRESSION")
    /\ Lowered(VisitExpression(gen, Head(todo).stmt.expression).g, <<>>)

VisitVarStmt ==
    /\ Visiting("VAR")
    /\ Lowered(VarAlloca(Head(todo).stmt.name, VarLowered(gen, Head(todo).stmt)), <<>>)

VisitConstStmt ==
    /\ Visiting("CONST")
    /\ Lowered(ConstAlloca(Head(todo).stmt.name, ConstLowered(gen, Head(todo).stmt)), <<>>)

\* CodeGenerator::visitFunctionStmt, to the visit of the body (visitStatement
\* names the case StmtType::FN, FunctionStmt::getType returns FUNCTION)
VisitFunctionStmt ==
    /\ Visiting("FUNCTION")
    /\ Lowered(FunctionOpened(gen, Head(todo).stmt),
               << GenStmtFrame(Head(todo).stmt.body), FunctionFrame(gen) >>)

\* CodeGenerator::visitFunctionStmt, after the body
FunctionEnd ==
    /\ Resuming("function")
    /\ Lowered(FunctionRestored(RetValue(CreateConstant(gen, "INT32", "0")), Head(todo)),
               <<>>)

VisitReturnStmt ==
    /\ Visiting("RETURN")
    /\ Lowered(RetValue(IF Head(todo).stmt.value # Null
                          THEN VisitExpression(gen, Head(todo).stmt.value)
                          ELSE CreateConstant(gen, "INT32", "0")),
               <<>>)

VisitBlockStmt ==
    /\ Visiting("BLOCK")
    /\ Lowered(gen, GenStmtFrames(Head(todo).stmt.statements))

\* CodeGenerator::visitIfStmt, to the visit of the then branch
VisitIfStmt ==
    /\ Visiting("IF")
    /\ Lowered(IfBlocks(VisitExpression(gen, Head(todo).stmt.condition), gen.blockCount),
               << GenStmtFrame(Head(todo).stmt.thenBranch),
                  ElseFrame(Head(todo).stmt, gen.blockCount) >>)

\* CodeGenerator::visitIfStmt, from the end of the then branch to the else branch
IfElseBranch ==
    /\ Resuming("else")
    /\ Lowered(BrThen(gen, Head(todo).mergeBlock, Head(todo).elseBlock),
               GenOptionalFrame(Head(todo).stmt.elseBranch)
                   \o << MergeFrame(Head(todo).mergeBlock) >>)

\* CodeGenerator::visitIfStmt, after the else branch
IfMerge ==
    /\ Resuming("merge")
    /\ Lowered(BrThen(gen, Head(todo).mergeBlock, Head(todo).mergeBlock), <<>>)

\* CodeGenerator::visitWhileStmt, to the visit of the body
VisitWhileStmt ==
    /\ Visiting("WHILE")
    /\ Lowered(WhileEntered(gen, Head(todo).stmt),
               << GenStmtFrame(Head(todo).stmt.body), WhileFrame(gen.blockCount) >>)

\* CodeGenerator::visitWhileStmt, after the body
WhileEnd ==
    /\ Resuming("while")
    /\ Lowered(BrThen(gen, Head(todo).conditionBlock, Head(todo).mergeBlock), <<>>)

\* CodeGenerator::visitForStmt, the initializer
VisitForStmt ==
    /\ Visiting("FOR")
    /\ Lowered(gen, GenOptionalFrame(Head(todo).stmt.initializer)
                        \o << LoopFrame(Head(todo).stmt) >>)

\* CodeGenerator::visitForStmt, from the new blocks to the visit of the body
ForLoop ==
    /\ Resuming("loop")
    /\ Lowered(ForEntered(gen, Head(todo).stmt),
               << GenStmtFrame(Head(todo).stmt.body),
                  IncrementFrame(Head(todo).stmt, gen.blockCount) >>)

\* CodeGenerator::visitForStmt, after the body
ForEnd ==
    /\ Resuming("increment")
    /\ Lowered(ForIncremented(gen, Head(todo)), <<>>)

VisitStructStmt ==
    /\ Visiting("STRUCT")
    /\ Lowered(gen, <<>>)

VisitClassStmt ==
    /\ Visiting("CLASS")
    /\ Lowered(gen, <<>>)

\* the default case of CodeGenerator::visitStatement
VisitDefault ==
    /\ gpc = "run"
    /\ todo # <<>>
    /\ Head(todo).op = "stmt"
    /\ Head(todo).stmt.kind \in { "TRY", "CATCH", "PROCESS" }
    /\ Lowered(gen, <<>>)

\* what generate leaves and returns, once the final createRet is made
GenerateEnd(g) ==
    /\ gen' = Generated(g)
    /\ result' = IF g.crashed THEN result ELSE Returned(g)
    /\ gpc' = IF g.crashed THEN "crashed" ELSE "done"

\* CodeGenerator::generate, after the loop over the statements
GenerateReturn ==
    /\ gpc = "run"
    /\ todo = <<>>
    /\ GenerateEnd(RetValue(CreateConstant(gen, "INT32", "0")))
    /\ UNCHANGED <<mainVars, optVars, lexVars, todo, nameRead, earlier, parserVars,
                   semaVars>>

(***************************************************************************)
(* GenSpec: CodeGenerator::generate() on a freshly constructed generator,  *)
(* for the programs the parser makes of up to MaxProgram of the sources    *)
(* below, under each outcome of the read of a moved-from name.             *)
(***************************************************************************)
\* `return 1;`
SrcReturn == << Tk("RETURN"), IntTok("1"), Tk("SEMICOLON") >>

\* `if (x) { return 1; }`
SrcIfReturn ==
    << Tk("IF"), Tk("LEFT_PAREN"), IdTok("x"), Tk("RIGHT_PAREN"), Tk("LEFT_BRACE"),
       Tk("RETURN"), IntTok("1"), Tk("SEMICOLON"), Tk("RIGHT_BRACE") >>

\* `while (x) { return; }`
SrcWhileReturn ==
    << Tk("WHILE"), Tk("LEFT_PAREN"), IdTok("x"), Tk("RIGHT_PAREN"), Tk("LEFT_BRACE"),
       Tk("RETURN"), Tk("SEMICOLON"), Tk("RIGHT_BRACE") >>

\* `y = 2;`
SrcAssignY == << IdTok("y"), Tk("ASSIGN"), IntTok("2"), Tk("SEMICOLON") >>

\* `for (;;) { }`
SrcForEver ==
    << Tk("FOR"), Tk("LEFT_PAREN"), Tk("SEMICOLON"), Tk("SEMICOLON"), Tk("RIGHT_PAREN"),
       Tk("LEFT_BRACE"), Tk("RIGHT_BRACE") >>

\* `for (; x; ) { }`
SrcForWhile ==
    << Tk("FOR"), Tk("LEFT_PAREN"), Tk("SEMICOLON"), IdTok("x"), Tk("SEMICOLON"),
       Tk("RIGHT_PAREN"), Tk("LEFT_BRACE"), Tk("RIGHT_BRACE") >>

\* `print(z);`
SrcPrintZ ==
    << IdTok("print"), Tk("LEFT_PAREN"), IdTok("z"), Tk("RIGHT_PAREN"), Tk("SEMICOLON") >>

\* `println("s");`
SrcPrintlnString ==
    << IdTok("println"), Tk("LEFT_PAREN"), StrTok("s"), Tk("RIGHT_PAREN"),
       Tk("SEMICOLON") >>

\* `println();`
SrcPrintlnEmpty ==
    << IdTok("println"), Tk("LEFT_PAREN"), Tk("RIGHT_PAREN"), Tk("SEMICOLON") >>

\* `fn g() { x; let w; }`
SrcFnReadsX ==
    << Tk("FN"), IdTok("g"), Tk("LEFT_PAREN"), Tk("RIGHT_PAREN"), Tk("LEFT_BRACE"),
       IdTok("x"), Tk("SEMICOLON"), Tk("LET"), IdTok("w"), Tk("SEMICOLON"),
       Tk("RIGHT_BRACE") >>

GenPool ==
    { SrcLetXInt1, SrcWhile, SrcFn, SrcCallF, SrcIfGreaterEqual, SrcFor, SrcReturn,
      SrcIfReturn, SrcWhileReturn, SrcAssignY, SrcStruct, SrcClass, SrcConst, SrcTry,
      SrcPrintlnZ, SrcLetW, SrcForEver, SrcForWhile, SrcPrintZ, SrcPrintlnString,
      SrcPrintlnEmpty, SrcFnReadsX }

RECURSIVE GenSources(_)
\* the token streams of up to n pool sources, one after the other
GenSources(n) ==
    IF n = 0 THEN { <<>> }
    ELSE GenSources(n - 1) \cup { s \o t : s \in GenSources(n - 1), t \in GenPool }

GenInit ==
    /\ \E src \in GenSources(MaxProgram) : ParseReturns(src) /\ program = Parse(src)
    /\ nameRead \in NameReads
    /\ gen = NewCodeGenerator
    /\ todo = <<>>
    /\ result = Null
    /\ gpc = "new"
    /\ earlier = <<>>
    /\ LexIdle
    /\ OptIdle
    /\ MainIdle
    /\ ParserIdle
    /\ SemaIdle

GenNext ==
    \/ Generate
    \/ VisitExpressionStmt
    \/ VisitVarStmt
    \/ VisitConstStmt
    \/ VisitFunctionStmt
    \/ FunctionEnd
    \/ VisitReturnStmt
    \/ VisitBlockStmt
    \/ VisitIfStmt
    \/ IfElseBranch
    \/ IfMerge
    \/ VisitWhileStmt
    \/ WhileEnd
    \/ VisitForStmt
    \/ ForLoop
    \/ ForEnd
    \/ VisitStructStmt
    \/ VisitClassStmt
    \/ VisitDefault
    \/ GenerateReturn

GenSpec == GenInit /\ [][GenNext]_vars

(***************************************************************************)
(* Properties of the generated module                                      *)
(***************************************************************************)
Terminators == { "Br", "CondBr", "Ret" }

\* the positions of the terminators of a block
TerminatorsOf(block) ==
    { i \in DOMAIN block.instructions : block.instructions[i].op \in Terminators }

\* C2: in the Module that generate() returns every basic block has exactly one
\* Br, CondBr or Ret, and it is the last instruction of the block.
C2_OneTerminatorLast ==
    gpc = "done" =>
        \A f \in DOMAIN result.functions : \A b \in DOMAIN result.functions[f].blocks :
            TerminatorsOf(result.functions[f].blocks[b]) =
                { Len(result.functions[f].blocks[b].instructions) }

\* `fn f(a: int, b) { return a; }` is lowered: the entry block of f holds the
\* Ret of the return statement and after it the Ret that ends every function
C2_TwoRets ==
    /\ gpc = "done"
    /\ nameRead = "name"
    /\ program = Parse(SrcFn)
    /\ result.functions[1].name = "f"
    /\ TerminatorsOf(result.functions[1].blocks[1]) = { 2, 4 }

BlockNames(function) == { function.blocks[b].name : b \in DOMAIN function.blocks }

Range(seq) == { seq[i] : i \in DOMAIN seq }

Instructions(function) ==
    UNION { Range(function.blocks[b].instructions) : b \in DOMAIN function.blocks }

\* the instructions createStore, createCondBr, createBr and createRet make
\* have no name
InstructionNames(function) ==
    { instr.name : instr \in { i \in Instructions(function) :
                                 i.op \notin { "Store", "CondBr", "Br", "Ret" } } }

\* the value operands of an instruction
Operands(instr) ==
    CASE instr.op = "Binary" -> { instr.left, instr.right }
      [] instr.op = "Unary" -> { instr.operand }
      [] instr.op = "Call" -> Range(instr.arguments)
      [] instr.op = "Load" -> { instr.pointer }
      [] instr.op = "Store" -> { instr.value, instr.pointer }
      [] instr.op = "CondBr" -> { instr.condition }
      [] instr.op = "Ret" -> { instr.value }
      [] OTHER -> {}

\* the branch targets of an instruction
Targets(instr) ==
    CASE instr.op = "Br" -> { instr.targetBlock }
      [] instr.op = "CondBr" -> { instr.trueBlock, instr.falseBlock }
      [] OTHER -> {}

\* C3: in the Module that generate() returns on a freshly constructed generator
\* every branch target is a block of the same Function and every value operand
\* is the name of an instruction of the same Function.
C3_ReferencesResolve ==
    gpc = "done" =>
        \A f \in DOMAIN result.functions :
            \A instr \in Instructions(result.functions[f]) :
                /\ Targets(instr) \subseteq BlockNames(result.functions[f])
                /\ Operands(instr) \subseteq InstructionNames(result.functions[f])

\* `let x: int = 1;` is lowered and the Store holds what the read of the
\* moved-from name of the Const gave, the name of no instruction
C3_GarbageOperand ==
    /\ gpc = "done"
    /\ nameRead = "garbage"
    /\ program = Parse(SrcLetXInt1)
    /\ result.functions[1].blocks[1].instructions[3] = StoreInst("INT32", Garbage, Garbage)

\* a statement that may be absent, as a list
OptionalStmt(stmt) == IF stmt = Null THEN << >> ELSE << stmt >>

RECURSIVE FnDeclarations(_)
\* the names of the fn declarations that lowering the statements reaches, in
\* the order in which their Functions are added to the Module
FnDeclarations(stmts) ==
    IF stmts = << >> THEN << >>
    ELSE (CASE Head(stmts).kind = "FUNCTION" ->
                 FnDeclarations(<< Head(stmts).body >>) \o << Head(stmts).name >>
            [] Head(stmts).kind = "BLOCK" -> FnDeclarations(Head(stmts).statements)
            [] Head(stmts).kind = "IF" ->
                 FnDeclarations(<< Head(stmts).thenBranch >>
                                  \o OptionalStmt(Head(stmts).elseBranch))
            [] Head(stmts).kind = "WHILE" -> FnDeclarations(<< Head(stmts).body >>)
            [] Head(stmts).kind = "FOR" ->
                 FnDeclarations(OptionalStmt(Head(stmts).initializer)
                                  \o << Head(stmts).body >>)
            [] OTHER -> << >>)
         \o FnDeclarations(Tail(stmts))

LastBlock(function) == function.blocks[Len(function.blocks)]

\* the last n instructions of a block
LastInstructions(block, n) ==
    SubSeq(block.instructions, Len(block.instructions) - n + 1,
           Len(block.instructions))

\* the Function that generate() added last
MainOf(module) == module.functions[Len(module.functions)]

\* C18: generate() returns a Module: its Functions are one for each fn
\* declaration that lowering reaches, named after it, and then main, of
\* return type INT32, whose last instructions are a Const "0" and a Ret of
\* type INT32 of that Const; when the program holds fn declarations only,
\* main holds nothing else.
C18_ModuleOfGenerate ==
    /\ gpc # "crashed"
    /\ gpc = "done" =>
         /\ [f \in DOMAIN result.functions |-> result.functions[f].name]
              = FnDeclarations(program) \o << "main" >>
         /\ MainOf(result).returnType = "INT32"
         /\ Len(LastBlock(MainOf(result)).instructions) >= 2
         /\ LastInstructions(LastBlock(MainOf(result)), 2)[1].op = "Const"
         /\ LastInstructions(LastBlock(MainOf(result)), 2)
              = << [ConstInst("INT32", "0") EXCEPT
                      !.name = LastInstructions(LastBlock(MainOf(result)), 2)[1].name],
                   RetInst("INT32",
                           LastInstructions(LastBlock(MainOf(result)), 2)[1].name) >>
         /\ (\A i \in DOMAIN program : program[i].kind = "FUNCTION")
              => /\ Len(MainOf(result).blocks) = 1
                 /\ Len(LastBlock(MainOf(result)).instructions) = 2

\* generate() on the empty program: the read of the moved-from name of the
\* Const "0" faulted and no Module was returned
C18_NoModuleReturned ==
    /\ gpc = "crashed"
    /\ program = << >>
    /\ result = Null

\* the block of that name in the current function
BlockNamed(g, name) ==
    CHOOSE block \in Range(g.currentFunction.blocks) : block.name = name

LastInstruction(block) == block.instructions[Len(block.instructions)]

\* the names of the blocks of the current function from the n-th on
BlocksFrom(g, n) ==
    [i \in 1..(Len(g.currentFunction.blocks) - n + 1) |->
        g.currentFunction.blocks[n + i - 1].name]

\* a CondBr to these blocks on the value of an instruction of the function
IsCondBr(instr, function, trueBlock, falseBlock) ==
    /\ instr.op = "CondBr"
    /\ instr.condition \in InstructionNames(function)
    /\ instr = CondBrInst(instr.condition, trueBlock, falseBlock)

\* C19: lowering an if statement appends three blocks, then, else and merge,
\* to the current function and ends the block that was current with
\* CondBr(condition, then, else), then being current for the then branch;
\* the block current after the then branch is ended with Br to merge and
\* else becomes current; the block current after the else branch (else
\* itself when there is none) is ended with Br to merge and merge is left
\* current.
C19_IfLowering ==
    /\ [][VisitIfStmt =>
            /\ gpc' = "run"
            /\ Len(BlocksFrom(gen', Len(gen.currentFunction.blocks) + 1)) = 3
            /\ IsCondBr(LastInstruction(BlockNamed(gen', gen.currentBlock)),
                        gen'.currentFunction,
                        BlocksFrom(gen', Len(gen.currentFunction.blocks) + 1)[1],
                        BlocksFrom(gen', Len(gen.currentFunction.blocks) + 1)[2])
            /\ gen'.currentBlock
                 = BlocksFrom(gen', Len(gen.currentFunction.blocks) + 1)[1]
            /\ << todo'[2].elseBlock, todo'[2].mergeBlock >>
                 = SubSeq(BlocksFrom(gen', Len(gen.currentFunction.blocks) + 1), 2, 3)
         ]_vars
    /\ [][IfElseBranch =>
            /\ LastInstruction(BlockNamed(gen', gen.currentBlock))
                 = BrInst(Head(todo).mergeBlock)
            /\ gen'.currentBlock = Head(todo).elseBlock
            /\ Head(todo).stmt.elseBranch = Null => Head(todo').op = "merge"
            /\ todo'[Len(todo') - Len(todo) + 1] = MergeFrame(Head(todo).mergeBlock)
         ]_vars
    /\ [][IfMerge =>
            /\ LastInstruction(BlockNamed(gen', gen.currentBlock))
                 = BrInst(Head(todo).mergeBlock)
            /\ gen'.currentBlock = Head(todo).mergeBlock]_vars

\* `if (x >= 1) { } else { y; }` is lowered and the CondBr tests what the
\* read of the moved-from name of the comparison gave
C19_GarbageCondition ==
    /\ gpc = "done"
    /\ program = Parse(SrcIfGreaterEqual)
    /\ LastInstruction(MainOf(result).blocks[1])
         = CondBrInst(Garbage, BlockName(1), BlockName(2))

\* C20: lowering a while statement appends three blocks, condition, body and
\* merge; the block that was current ends with Br to condition, the
\* condition block ends with CondBr(test, body, merge) and body becomes
\* current; the block current after the body is ended with Br to condition
\* and merge becomes current; for `while (x < 3) { println(x); x = x + 1; }`
\* the body block then ends with the Store of the assignment and that Br.
C20_WhileLowering ==
    /\ [][VisitWhileStmt =>
            /\ gpc' = "run"
            /\ Len(BlocksFrom(gen', Len(gen.currentFunction.blocks) + 1)) = 3
            /\ LastInstruction(BlockNamed(gen', gen.currentBlock))
                 = BrInst(BlocksFrom(gen', Len(gen.currentFunction.blocks) + 1)[1])
            /\ IsCondBr(LastInstruction(gen'.currentFunction.blocks[
                            Len(gen.currentFunction.blocks) + 1]),
                        gen'.currentFunction,
                        BlocksFrom(gen', Len(gen.currentFunction.blocks) + 1)[2],
                        BlocksFrom(gen', Len(gen.currentFunction.blocks) + 1)[3])
            /\ gen'.currentBlock
                 = BlocksFrom(gen', Len(gen.currentFunction.blocks) + 1)[2]
            /\ << todo'[2].conditionBlock, todo'[2].mergeBlock >>
                 = << BlocksFrom(gen', Len(gen.currentFunction.blocks) + 1)[1],
                      BlocksFrom(gen', Len(gen.currentFunction.blocks) + 1)[3] >>
         ]_vars
    /\ [][WhileEnd =>
            /\ LastInstruction(BlockNamed(gen', gen.currentBlock))
                 = BrInst(Head(todo).conditionBlock)
            /\ gen'.currentBlock = Head(todo).mergeBlock
            /\ program = Parse(SrcWhile) =>
                 /\ gen.currentBlock = BlockName(2)
                 /\ LastInstructions(BlockNamed(gen', gen.currentBlock), 2)[1].op
                      = "Store"
                 /\ LastInstructions(BlockNamed(gen', gen.currentBlock), 2)[1]
                      = StoreInst("INT32",
                                  BlockNamed(gen', gen.currentBlock).instructions[6].name,
                                  BlockNamed(gen', gen.currentBlock).instructions[7].name)
         ]_vars

\* `while (x < 3) { println(x); x = x + 1; }` is lowered and the CondBr of
\* the condition block tests what the read of a moved-from name gave
C20_GarbageTest ==
    /\ gpc = "done"
    /\ program = Parse(SrcWhile)
    /\ LastInstruction(MainOf(result).blocks[2])
         = CondBrInst(Garbage, BlockName(2), BlockName(3))

\* the instruction is a Const of the function that holds a true value
IsTrueConst(instr) ==
    /\ instr.op = "Const"
    /\ instr.value \in { "1", "true" }

\* the block always goes on to bodyBlock: it ends with Br to it or with a
\* CondBr to it on a Const of the function that holds a true value
AlwaysTrue(block, function, bodyBlock) ==
    /\ block.instructions # <<>>
    /\ \/ LastInstruction(block) = BrInst(bodyBlock)
       \/ /\ LastInstruction(block).op = "CondBr"
          /\ LastInstruction(block).trueBlock = bodyBlock
          /\ \E instr \in Instructions(function) :
                /\ IsTrueConst(instr)
                /\ instr.name = LastInstruction(block).condition

\* C21: lowering a for statement whose condition or increment clause is
\* absent never reads through the null child: with no condition the
\* lowering goes on and the condition block always continues to the body
\* block; with no increment the lowering goes on and the increment block
\* holds the Br back to the condition block and nothing else.
C21_AbsentForClauses ==
    /\ [][ForLoop /\ Head(todo).stmt.condition = Null =>
            /\ gpc' = "run"
            /\ AlwaysTrue(BlockNamed(gen', BlockName(gen.blockCount)),
                          gen'.currentFunction, BlockName(gen.blockCount + 1))
         ]_vars
    /\ [][ForEnd /\ Head(todo).stmt.increment = Null =>
            /\ gpc' = "run"
            /\ BlockNamed(gen', Head(todo).incrementBlock).instructions
                 = << BrInst(Head(todo).conditionBlock) >>
         ]_vars

\* `for (;;) { }` is lowered with every create function returning the old
\* name, and visitExpression has read through the null condition
C21_NullConditionVisited ==
    /\ gpc = "crashed"
    /\ nameRead = "name"
    /\ program = Parse(SrcForEver)
    /\ gen.crashed
    /\ Len(gen.currentFunction.blocks) = 5
    /\ todo # <<>>
    /\ Head(todo).op = "stmt"

\* visitExpressionStmt lowers a call whose callee is the identifier println
\* or print
PrintStep ==
    /\ VisitExpressionStmt
    /\ Head(todo).stmt.expression.kind = "CALL"
    /\ Head(todo).stmt.expression.callee.kind = "IDENTIFIER"
    /\ Head(todo).stmt.expression.callee.name \in { "println", "print" }

\* the instruction of the function that has this name is this Const
NamesConst(function, name, type, value) ==
    \E instr \in Instructions(function) :
        /\ instr.op = "Const"
        /\ instr = [ConstInst(type, value) EXCEPT !.name = name]

\* the instruction is the printf call the claim describes for these source
\* arguments, lowered being the instruction added just before it
IsPrintfCall(call, function, arguments, lowered) ==
    /\ call.op = "Call"
    /\ call.funcName = "printf"
    /\ IF arguments = <<>>
         THEN /\ Len(call.arguments) = 1
              /\ NamesConst(function, call.arguments[1], "POINTER", "\n")
         ELSE /\ Len(call.arguments) = 2
              /\ NamesConst(function, call.arguments[1], "POINTER",
                            IF arguments[1].kind = "LITERAL"
                                 /\ arguments[1].type = "string"
                              THEN "%s\n" ELSE "%d\n")
              /\ call.arguments[2] = lowered.name

\* C22: a call of println or print with at most one argument lowers to a
\* Call of printf; with one argument the Call's first argument is a POINTER
\* Const, "%s\n" for a string literal and "%d\n" otherwise, and the second
\* is the lowered source argument; with no argument the only argument is
\* the POINTER Const "\n".
C22_PrintLowersToPrintf ==
    [][PrintStep /\ Len(Head(todo).stmt.expression.arguments) <= 1 =>
         /\ gpc' = "run"
         /\ IsPrintfCall(LastInstruction(BlockNamed(gen', gen.currentBlock)),
                         gen'.currentFunction, Head(todo).stmt.expression.arguments,
                         LastInstructions(BlockNamed(gen', gen.currentBlock), 2)[1])
    ]_vars

\* `print(z);` is lowered with every create function returning the old name
\* and the Call of main names the function print
C22_PrintCallsPrint ==
    /\ gpc = "done"
    /\ nameRead = "name"
    /\ program = Parse(SrcPrintZ)
    /\ MainOf(result).blocks[1].instructions[2]
         = [CallInst("INT32", "print", << InstrName(0) >>) EXCEPT !.name = InstrName(1)]

\* the names of the blocks the generator holds: those of its module's
\* functions and those of the function it is lowering
BlockNamesOf(g) ==
    UNION ({ BlockNames(g.module.functions[f]) : f \in DOMAIN g.module.functions }
             \cup { BlockNames(g.currentFunction) })

\* the innermost visitFunctionStmt on the stack
EnclosingFunction(stack) ==
    stack[CHOOSE i \in DOMAIN stack :
              /\ stack[i].op = "function"
              /\ \A j \in 1..(i - 1) : stack[j].op # "function"]

\* visitExpressionStmt lowers an identifier as the first thing lowered in a fn
\* whose enclosing function has a variable of that name
ReadsOuterVariable ==
    /\ VisitExpressionStmt
    /\ Head(todo).stmt.expression.kind = "IDENTIFIER"
    /\ \E i \in DOMAIN todo : todo[i].op = "function"
    /\ Instructions(gen.currentFunction) = {}
    /\ Head(todo).stmt.expression.name
         \in DOMAIN EnclosingFunction(todo).oldVariableMap

\* visitFunctionStmt starts the body with no variable, in a function whose
\* only block is a new empty one, and keeps what it replaced
FunctionStarted(g, h, saved) ==
    /\ h.variableMap = EmptyTable
    /\ h.currentBlock \notin BlockNamesOf(g)
    /\ h.currentFunction.blocks = << BasicBlock(h.currentBlock) >>
    /\ saved = [op |-> "function", oldFunction |-> g.currentFunction,
                oldBlock |-> g.currentBlock, oldVariableMap |-> g.variableMap]

\* visitFunctionStmt returns with what it replaced put back, the fn added to
\* the module
FunctionFinished(g, h, saved) ==
    /\ h.currentFunction = saved.oldFunction
    /\ h.currentBlock = saved.oldBlock
    /\ h.variableMap = saved.oldVariableMap
    /\ Len(h.module.functions) = Len(g.module.functions) + 1
    /\ MainOf(h.module).name = g.currentFunction.name

\* C26: lowering a fn declaration starts from an empty variable map and a
\* fresh entry block; when it completes, the enclosing function, its current
\* block and its variable map are again what they were when it started (no
\* name bound inside the fn is visible, no instruction was appended to the
\* enclosing function); a variable of the enclosing function read inside the
\* fn lowers to Const 0, not to a Load.
C26_FunctionFrame ==
    [][/\ VisitFunctionStmt => FunctionStarted(gen, gen', todo'[2])
       /\ FunctionEnd /\ ~gen'.crashed => FunctionFinished(gen, gen', Head(todo))
       /\ ReadsOuterVariable =>
            LastInstruction(BlockNamed(gen', gen.currentBlock))
              = [ConstInst("INT32", "0") EXCEPT !.name = InstrName(gen.instrCount)]
    ]_vars

\* `let x: int = 1; fn g() { x; let w; }` is lowered: g reads no variable, and
\* main holds the Alloca of x, its Store and the final Ret alone
C26_OuterReadIsConst ==
    /\ gpc = "done"
    /\ nameRead = "name"
    /\ program = Parse(SrcLetXInt1 \o SrcFnReadsX)
    /\ result.functions[1].name = "g"
    /\ result.functions[1].blocks[1].instructions[1]
         = [ConstInst("INT32", "0") EXCEPT !.name = InstrName(2)]
    /\ \A instr \in Instructions(result.functions[1]) : instr.op # "Load"
    /\ DOMAIN gen.variableMap = { "x" }
    /\ Len(MainOf(result).blocks) = 1
    /\ Len(MainOf(result).blocks[1].instructions) = 5

\* the statements i < j of the program are class declarations
ClassesInOrder(i, j) ==
    i < j /\ program[i].kind = "CLASS" /\ program[j].kind = "CLASS"

\* C27: a class declaration registers its name: once the program is
\* analyzed, a later class of the same name was reported as already
\* defined, and a later class naming it as superclass was not reported for
\* an undefined superclass.
C27_ClassNameRegistered ==
    spc = "done" =>
      \A i, j \in DOMAIN program :
        ClassesInOrder(i, j) =>
          /\ program[j].name = program[i].name =>
               << "Class '", program[j].name, "' is already defined." >>
                 \in Range(diagnostics)
          /\ program[j].superclass = program[i].name =>
               << "Superclass '", program[j].superclass, "' is not defined." >>
                 \notin Range(diagnostics)

\* `class A { } class A { }` is analyzed from end to end without any error
C27_SecondClassAccepted ==
    /\ spc = "done"
    /\ program = Parse(SrcClassA \o SrcClassA)
    /\ Len(program) = 2
    /\ visited = 2
    /\ diagnostics = <<>>
    /\ ~hadErrorFlag

\* the analyzer is about to handle a `let` or `const` whose initializer is an
\* identifier, not the declared name, that names no variable and no function
UndefinedInitializer ==
    /\ AnalyzeVarStatement \/ AnalyzeConstStatement
    /\ Current.initializer # Null
    /\ Current.initializer.kind = "IDENTIFIER"
    /\ Current.initializer.name # Current.name
    /\ ~IsVariableDefined(This, Current.initializer.name)
    /\ ~IsFunctionDefined(This, Current.initializer.name)

\* C28: a var or const declaration whose initializer is an undefined
\* identifier reports 'Undefined identifier' for it exactly once, with a type
\* annotation and without.
C28_InitializerReportedOnce ==
    [][UndefinedInitializer =>
         Reported(UndefinedIdentifier(Current.initializer.name)) = 1]_vars

\* `let b = c;` is analyzed and c was reported twice
C28_ReportedTwice ==
    /\ spc = "done"
    /\ program = Parse(SrcLetBC)
    /\ diagnostics = << UndefinedIdentifier("c"), UndefinedIdentifier("c") >>

(***************************************************************************)
(* RegenSpec: generate() called again, with another statement list, on the *)
(* CodeGenerator that has returned a Module; MaxCalls calls in all.        *)
(***************************************************************************)
\* number of generate() calls made on one CodeGenerator
MaxCalls == 2

\* the sources of the statement lists of the later calls
AgainPool == { SrcUseY, SrcLetXInt1, SrcFnReadsX }

\* the caller keeps the Module it was returned and calls generate() again
GenerateAgain ==
    /\ gpc = "done"
    /\ Len(earlier) + 1 < MaxCalls
    /\ \E src \in AgainPool : program' = Parse(src)
    /\ earlier' = Append(earlier, result)
    /\ result' = Null
    /\ gpc' = "new"
    /\ UNCHANGED <<mainVars, optVars, lexVars, parserVars, scopes, hadErrorFlag,
                   diagnostics, frames, visited, spc, gen, nameRead, todo>>

RegenNext == GenNext \/ GenerateAgain

RegenSpec == GenInit /\ [][RegenNext]_vars

\* the names of the instructions of the Modules returned earlier
EarlierNames ==
    UNION { UNION { InstructionNames(earlier[m].functions[f]) :
                      f \in DOMAIN earlier[m].functions } : m \in DOMAIN earlier }

\* C29: the Module a second generate() call on the same CodeGenerator
\* returns, every create function returning the old name, holds no binding
\* of the first call: no Load reads an Alloca that only an earlier Module
\* holds, and every value operand is the name of an instruction of the same
\* Function.
C29_SecondModuleSelfContained ==
    gpc = "done" /\ earlier # <<>> /\ nameRead = "name" =>
        \A f \in DOMAIN result.functions :
            \A instr \in Instructions(result.functions[f]) :
                /\ instr.op = "Load" =>
                     instr.pointer \notin
                       EarlierNames \ InstructionNames(result.functions[f])
                /\ Operands(instr) \subseteq InstructionNames(result.functions[f])

\* `y = 2;` was lowered by the first call and `y;` by the second: the second
\* Module starts with a Load of the Alloca of the first, which it does not hold
C29_LoadOfFirstAlloca ==
    /\ gpc = "done"
    /\ nameRead = "name"
    /\ Len(earlier) = 1
    /\ MainOf(earlier[1]).blocks[1].instructions[2]
         = [AllocaInst("INT32") EXCEPT !.name = InstrName(1)]
    /\ program = Parse(SrcUseY)
    /\ MainOf(result).blocks[1].instructions[1]
         = [LoadInst("INT32", InstrName(1)) EXCEPT !.name = InstrName(4)]
    /\ InstrName(1) \notin InstructionNames(MainOf(result))

(***************************************************************************)
(* The optimizer (optimizer.cpp) and the text form of the IR (ir.cpp).     *)
(* An instruction the generator never names (Store, CondBr, Br, Ret) has   *)
(* the empty name.  A text is the sequence of the pieces appended to it,   *)
(* a literal, a value or the pieces of a generated name.                   *)
(***************************************************************************)
PhiInst(type, incoming) ==
    [op |-> "Phi", name |-> NoName, type |-> type, incoming |-> incoming]

\* Instruction::name
NameOf(instr) == IF "name" \in DOMAIN instr THEN instr.name ELSE NoName

\* Optimizer::Optimizer
NewOptimizer == [module |-> Null]

\* Optimizer::tryMergeConstants
TryMergeConstants(instr) == FALSE

\* the operand, with oldName replaced by newName
Replaced(operand, oldName, newName) == IF operand = oldName THEN newName ELSE operand

\* Optimizer::replaceInstructionUse, one instruction
ReplaceUse(instr, oldName, newName) ==
    CASE instr.op = "Binary" ->
           [instr EXCEPT !.left = Replaced(@, oldName, newName),
                         !.right = Replaced(@, oldName, newName)]
      [] instr.op = "Unary" -> [instr EXCEPT !.operand = Replaced(@, oldName, newName)]
      [] instr.op = "Call" ->
           [instr EXCEPT !.arguments =
                             [i \in DOMAIN @ |-> Replaced(@[i], oldName, newName)]]
      [] instr.op = "Load" -> [instr EXCEPT !.pointer = Replaced(@, oldName, newName)]
      [] instr.op = "Store" ->
           [instr EXCEPT !.value = Replaced(@, oldName, newName),
                         !.pointer = Replaced(@, oldName, newName)]
      [] instr.op = "CondBr" ->
           [instr EXCEPT !.condition = Replaced(@, oldName, newName)]
      [] OTHER -> instr

\* Optimizer::replaceInstructionUse
ReplaceInstructionUse(oldName, newName, block) ==
    [block EXCEPT !.instructions =
                      [i \in DOMAIN @ |-> ReplaceUse(@[i], oldName, newName)]]

RECURSIVE ConstantFoldingFrom(_, _)
\* the loop of Optimizer::constantFolding, from the i-th instruction on
ConstantFoldingFrom(block, i) ==
    IF i > Len(block.instructions) THEN block
    ELSE ConstantFoldingFrom(
             IF block.instructions[i].op = "Binary"
                  /\ TryMergeConstants(block.instructions[i])
               THEN ReplaceInstructionUse(block.instructions[i].name,
                                          block.instructions[i].name, block)
               ELSE block,
             i + 1)

\* Optimizer::constantFolding
ConstantFolding(block) == ConstantFoldingFrom(block, 1)

\* Optimizer::simplifyExpressions: its loop body is empty
SimplifyExpressions(block) == block

\* Optimizer::isDeadCode with its last `return false` turned into `return
\* true`: a named instruction of none of the listed classes is dead
IsDeadCodeWhenUnlisted(instr) ==
    CASE NameOf(instr) = NoName -> FALSE
      [] instr.op = "Ret" -> FALSE
      [] instr.op \in { "Br", "CondBr" } -> FALSE
      [] instr.op = "Store" -> FALSE
      [] instr.op = "Call" -> FALSE
      [] instr.op = "Const" -> FALSE
      [] instr.op = "Alloca" -> FALSE
      [] OTHER -> TRUE

\* Optimizer::isDeadCode
IsDeadCode(instr) ==
    CASE NameOf(instr) = NoName -> FALSE
      [] instr.op = "Ret" -> FALSE
      [] instr.op \in { "Br", "CondBr" } -> FALSE
      [] instr.op = "Store" -> FALSE
      [] instr.op = "Call" -> FALSE
      [] instr.op = "Const" -> FALSE
      [] instr.op = "Alloca" -> FALSE
      [] OTHER -> FALSE

RECURSIVE ToDelete(_, _, _)
\* the first loop of Optimizer::deadCodeElimination: the positions, counted
\* from 0, of the instructions isDeadCode marks
ToDelete(instructions, i, marked) ==
    IF i >= Len(instructions) THEN marked
    ELSE ToDelete(instructions, i + 1,
                  IF IsDeadCode(instructions[i + 1]) THEN Append(marked, i) ELSE marked)

\* instructions.erase(instructions.begin() + i)
Erase(instructions, i) ==
    SubSeq(instructions, 1, i) \o SubSeq(instructions, i + 2, Len(instructions))

RECURSIVE EraseMarked(_, _, _)
\* the second loop of Optimizer::deadCodeElimination, from toDelete[i] down
EraseMarked(instructions, toDelete, i) ==
    IF i < 0 THEN instructions
    ELSE EraseMarked(Erase(instructions, toDelete[i + 1]), toDelete, i - 1)

\* Optimizer::deadCodeElimination once the instructions are marked
Eliminated(block, toDelete) ==
    [block EXCEPT !.instructions = EraseMarked(@, toDelete, Len(toDelete) - 1)]

\* Optimizer::deadCodeElimination
DeadCodeElimination(block) == Eliminated(block, ToDelete(block.instructions, 0, <<>>))

\* Optimizer::optimizeBlock
OptimizeBlock(block) == DeadCodeElimination(SimplifyExpressions(ConstantFolding(block)))

\* Optimizer::optimizeFunction
OptimizeFunction(func) ==
    [func EXCEPT !.blocks = [i \in DOMAIN @ |-> OptimizeBlock(@[i])]]

\* Optimizer::optimize: the Module it returns
Optimize(module) ==
    [module EXCEPT !.functions = [i \in DOMAIN @ |-> OptimizeFunction(@[i])]]

\* typeToString
TypeToString(type) ==
    CASE type = "VOID" -> "void"
      [] type = "BOOL" -> "i1"
      [] type = "INT8" -> "i8"
      [] type = "INT16" -> "i16"
      [] type = "INT32" -> "i32"
      [] type = "INT64" -> "i64"
      [] type = "FLOAT" -> "float"
      [] type = "DOUBLE" -> "double"
      [] type = "POINTER" -> "ptr"
      [] type = "ARRAY" -> "array"
      [] type = "STRUCT" -> "struct"
      [] OTHER -> "unknown"

\* opcodeToString, for the opcodes of BinaryInst and UnaryInst
OpcodeToString(opcode) ==
    CASE opcode = "ADD" -> "add"
      [] opcode = "SUB" -> "sub"
      [] opcode = "MUL" -> "mul"
      [] opcode = "DIV" -> "div"
      [] opcode = "MOD" -> "mod"
      [] opcode = "EQ" -> "eq"
      [] opcode = "NE" -> "ne"
      [] opcode = "LT" -> "lt"
      [] opcode = "LE" -> "le"
      [] opcode = "GT" -> "gt"
      [] opcode = "GE" -> "ge"
      [] opcode = "AND" -> "and"
      [] opcode = "OR" -> "or"
      [] opcode = "NOT" -> "not"
      [] OTHER -> "unknown"

RECURSIVE Joined(_, _)
\* the elements of a sequence of names from the i-th on, with ", " between
Joined(names, i) ==
    IF i > Len(names) THEN <<>>
    ELSE (IF i > 1 THEN << ", " >> ELSE <<>>) \o names[i] \o Joined(names, i + 1)

RECURSIVE Incoming(_, _)
\* the loop of PhiInst::toString
Incoming(incoming, i) ==
    IF i > Len(incoming) THEN <<>>
    ELSE (IF i > 1 THEN << ", " >> ELSE <<>>)
           \o incoming[i][1] \o << ", label %" >> \o incoming[i][2]
           \o Incoming(incoming, i + 1)

\* ConstInst::toString .. PhiInst::toString
InstructionToString(instr) ==
    CASE instr.op = "Const" ->
           << "const ", TypeToString(instr.type), " ", instr.value >>
      [] instr.op = "Binary" ->
           << OpcodeToString(instr.opcode), " ", TypeToString(instr.type), " " >>
             \o instr.left \o << ", " >> \o instr.right
      [] instr.op = "Unary" ->
           << OpcodeToString(instr.opcode), " ", TypeToString(instr.type), " " >>
             \o instr.operand
      [] instr.op = "CondBr" ->
           << "cond_br i1 " >> \o instr.condition \o << ", label %" >>
             \o instr.trueBlock \o << ", label %" >> \o instr.falseBlock
      [] instr.op = "Br" -> << "br label %" >> \o instr.targetBlock
      [] instr.op = "Call" ->
           << "call ", TypeToString(instr.type), " @", instr.funcName, "(" >>
             \o Joined(instr.arguments, 1) \o << ")" >>
      [] instr.op = "Ret" ->
           IF instr.type = "VOID" THEN << "ret void" >>
           ELSE << "ret ", TypeToString(instr.type), " " >> \o instr.value
      [] instr.op = "Alloca" -> << "alloca ", TypeToString(instr.type) >>
      [] instr.op = "Load" ->
           << "load ", TypeToString(instr.type), ", ptr " >> \o instr.pointer
      [] instr.op = "Store" ->
           << "store ", TypeToString(instr.type), " " >> \o instr.value
             \o << ", ptr " >> \o instr.pointer
      [] instr.op = "Phi" ->
           << "phi ", TypeToString(instr.type), " [" >> \o Incoming(instr.incoming, 1)
             \o << "]" >>

\* one line of BasicBlock::toString
LineToString(instr) ==
    (IF NameOf(instr) # NoName THEN << "  " >> \o instr.name \o << " = " >>
     ELSE << "  " >>)
      \o InstructionToString(instr) \o << "\n" >>

RECURSIVE Concat(_, _)
\* the texts of a sequence from the i-th on, one after the other
Concat(texts, i) == IF i > Len(texts) THEN <<>> ELSE texts[i] \o Concat(texts, i + 1)

\* BasicBlock::toString
BlockToString(block) ==
    block.name \o << ":\n" >>
      \o Concat([i \in DOMAIN block.instructions |-> LineToString(block.instructions[i])],
                1)

\* Function::toString
FunctionToString(func) ==
    << "define ", TypeToString(func.returnType), " @", func.name, "() {\n" >>
      \o Concat([i \in DOMAIN func.blocks |-> BlockToString(func.blocks[i]) \o << "\n" >>],
                1)
      \o << "}\n" >>

\* Module::toString
ModuleToString(module) ==
    << "module @", module.name, "\n\n" >>
      \o Concat([i \in DOMAIN module.functions |->
                    FunctionToString(module.functions[i]) \o << "\n" >>], 1)

(***************************************************************************)
(* OptSpec: Optimizer::optimize() called up to MaxRuns times in a row on a *)
(* Module, each call on the Module the one before returned.  The Modules   *)
(* are those of one function `main` whose one block holds up to            *)
(* MaxInstructions instructions of the alphabet below, and the samples.    *)
(***************************************************************************)
Named0(instr) == [instr EXCEPT !.name = InstrName(0)]

Named1(instr) == [instr EXCEPT !.name = InstrName(1)]

\* an instruction of each class of ir.h; the Load, the Binary, the Unary and
\* the Phi are named and used by nothing
InstructionAlphabet ==
    { Named0(ConstInst("INT32", "1")),
      Named1(BinaryInst("ADD", "INT32", InstrName(0), InstrName(0))),
      Named1(UnaryInst("NOT", "INT32", InstrName(0))),
      Named1(CallInst("INT32", "printf", << InstrName(0), InstrName(0) >>)),
      Named0(AllocaInst("INT32")),
      Named1(LoadInst("INT32", InstrName(0))),
      LoadInst("INT32", InstrName(0)),
      StoreInst("INT32", InstrName(1), InstrName(0)),
      CondBrInst(InstrName(1), BlockName(0), BlockName(1)),
      BrInst(BlockName(0)),
      RetInst("INT32", InstrName(1)),
      RetInst("VOID", NoName),
      Named1(PhiInst("INT32", << << InstrName(0), BlockName(0) >>,
                                 << InstrName(0), BlockName(1) >> >>)) }

RECURSIVE InstructionLists(_)
\* the sequences of up to n instructions of the alphabet
InstructionLists(n) ==
    IF n = 0 THEN { <<>> }
    ELSE InstructionLists(n - 1)
           \cup { Append(l, i) : l \in InstructionLists(n - 1), i \in InstructionAlphabet }

\* the Module of one function `main` with one block of these instructions
ModuleOf(instructions) ==
    [Module("main") EXCEPT !.functions =
        << [Function("main", "INT32") EXCEPT !.blocks =
               << [BasicBlock(BlockName(0)) EXCEPT !.instructions = instructions] >>] >>]

\* a Module without functions
ModuleEmpty == Module("main")

\* a Module of two functions, the first without blocks, the second of two
\* blocks: a named Load nothing uses, then a Store and a Br
ModuleTwoFunctions ==
    [Module("main") EXCEPT !.functions =
        << Function("f", "VOID"),
           [Function("main", "INT32") EXCEPT !.blocks =
               << [BasicBlock(BlockName(0)) EXCEPT !.instructions =
                      << Named1(LoadInst("INT32", InstrName(0))) >>],
                  [BasicBlock(BlockName(1)) EXCEPT !.instructions =
                      << StoreInst("INT32", InstrName(1), InstrName(0)),
                         BrInst(BlockName(0)) >>] >>] >>]

Modules ==
    { ModuleOf(l) : l \in InstructionLists(MaxInstructions) }
      \cup { ModuleEmpty, ModuleTwoFunctions }

OptInit ==
    /\ irModule \in Modules
    /\ rendered = << ModuleToString(irModule) >>
    /\ optimizer = NewOptimizer
    /\ program = << >>
    /\ LexIdle
    /\ MainIdle
    /\ ParserIdle
    /\ SemaIdle
    /\ GenIdle

\* optimizedModule = optimizer.optimize(std::move(module)), and its toString()
OptimizeCall ==
    /\ Len(rendered) <= MaxRuns
    /\ optimizer' = [optimizer EXCEPT !.module = Null]
    /\ irModule' = Optimize(irModule)
    /\ rendered' = Append(rendered, ModuleToString(Optimize(irModule)))
    /\ UNCHANGED <<mainVars, lexVars, parserVars, semaVars, genVars>>

OptNext == OptimizeCall

OptSpec == OptInit /\ [][OptNext]_vars

\* C23: Optimizer::optimize is the identity on every Module: the Module a
\* call returns equals the Module it was given, function by function, block
\* by block and instruction by instruction, so m, optimize(m) and
\* optimize(optimize(m)) render the same toString() text.
C23_OptimizeIsIdentity ==
    /\ [][OptimizeCall => irModule' = irModule]_vars
    /\ [](\A i \in DOMAIN rendered : rendered[i] = rendered[1])

\* optimize has run twice on a Module whose block holds a named Load and a
\* named Binary that nothing uses, and three texts are recorded
C23_OptimizedTwice ==
    /\ Len(rendered) = 3
    /\ irModule = ModuleOf(<< Named1(LoadInst("INT32", InstrName(0))),
                              Named1(BinaryInst("ADD", "INT32", InstrName(0),
                                                InstrName(0))) >>)
    /\ rendered[3]
         = << "module @", "main", "\n\n", "define ", "i32", " @", "main", "() {\n",
              "block", 0, ":\n",
              "  ", "%instr", 1, " = ", "load ", "i32", ", ptr ", "%instr", 0, "\n",
              "  ", "%instr", 1, " = ", "add", " ", "i32", " ", "%instr", 0, ", ",
              "%instr", 0, "\n",
              "\n", "}\n", "\n" >>

(***************************************************************************)
(* CompileSpec: nexus::compile() (main.cpp) on a source file, from         *)
(* readFile to writeFile.  The steps of the parser, the analyzer and the   *)
(* generator are the actions above; the input files are those whose token  *)
(* streams are listed below, programs of `let` declarations and            *)
(* expression statements.  The backend (backend/codegen.h) is not part of  *)
(* the model: its call is a step that returns a text.                      *)
(***************************************************************************)
\* the steps of compile(), in the order of its body
Steps == << "read", "parse", "analyze", "generate", "optimize", "emit", "write" >>

\* exit status of a process killed by SIGSEGV (signal 11) and by SIGKILL
\* (signal 9), as the shell reports it
Segfault == 128 + 11

Killed == 128 + 9

\* compile() is at step pc, has begun these steps, and the process has exited
\* with status exit (-1 while it runs)
Compiler(pc, steps, exit) == [pc |-> pc, steps |-> steps, exit |-> exit]

\* compile() goes on to the next step
Begin(step) ==
    compiler' = Compiler(step, Append(compiler.steps, step), compiler.exit)

\* exit(status), or the death of the process with that status
Exit(status) == compiler' = Compiler("exited", compiler.steps, status)

\* `1 2;`: the parser reports "Expect ';' after expression." and returns
\* the statements `1` and `2;`
SrcTwoLiterals == << IntTok("1"), IntTok("2"), Tk("SEMICOLON") >>

\* `@ 1;`: the lexer returns an ERROR token for '@'
SrcUnexpectedCharacter ==
    << Token("ERROR", "Unexpected character."), IntTok("1"), Tk("SEMICOLON") >>

\* `)`
SrcStrayParen == << Tk("RIGHT_PAREN") >>

\* `1;`
SrcLiteral == << IntTok("1"), Tk("SEMICOLON") >>

CompileInputs ==
    { <<>>, SrcLetXInt1, SrcLiteral, SrcUseY, SrcLetXInt1 \o SrcUseY, SrcLetW,
      SrcLetXInt1 \o SrcLetXInt20, SrcTwoLiterals, SrcUnexpectedCharacter,
      SrcUnexpectedCharacter \o SrcUseY, SrcStrayParen, SrcLiteral \o SrcStrayParen,
      SrcPrintlnZ, SrcLetW \o SrcPrintlnEmpty }

CompileInit ==
    /\ compiler = Compiler("read", << "read" >>, -1)
    /\ \E toks \in CompileInputs : parser = [IdleParser EXCEPT !.toks = toks]
    /\ statements = <<>>
    /\ ppc = "idle"
    /\ consumed = [idle |-> TRUE]
    /\ program = <<>>
    /\ nameRead \in NameReads
    /\ gen = [idle |-> TRUE] /\ todo = <<>> /\ result = [idle |-> TRUE] /\ gpc = "idle"
    /\ earlier = <<>>
    /\ LexIdle
    /\ OptIdle
    /\ SemaIdle

\* readFile(inputPath), then `frontend::Parser parser(source)`
ReadFile ==
    /\ compiler.pc = "read"
    /\ \/ /\ Exit(1)
          /\ UNCHANGED parserVars
       \/ /\ Begin("parse")
          /\ parser' = NewParser(parser.toks)
          /\ ppc' = "loop"
          /\ UNCHANGED <<statements, consumed>>
    /\ UNCHANGED <<optVars, lexVars, semaVars, genVars>>

\* the loop of Parser::parse that never exits appends a statement to a
\* vector in every iteration: memory runs out, and either std::bad_alloc
\* reaches the handler of main(), which returns 1, or the process is killed
ParseExhausted ==
    /\ compiler.pc = "parse"
    /\ ppc = "hung"
    /\ \E status \in { 1, Killed } : Exit(status)
    /\ UNCHANGED <<optVars, lexVars, parserVars, semaVars, genVars>>

\* `frontend::SemanticAnalyzer analyzer; analyzer.analyze(statements)`
AnalyzeProgram ==
    /\ compiler.pc = "parse"
    /\ ppc = "done"
    /\ Begin("analyze")
    /\ program' = statements
    /\ scopes' = NewSemanticAnalyzer.scopes
    /\ hadErrorFlag' = NewSemanticAnalyzer.hadError
    /\ diagnostics' = NewSemanticAnalyzer.diagnostics
    /\ frames' = StmtFrames(statements)
    /\ visited' = 0
    /\ spc' = "run"
    /\ UNCHANGED <<optVars, lexVars, parserVars, genVars>>

\* `if (analyzer.hadError()) { ... exit(1); }`
AnalysisFailed ==
    /\ compiler.pc = "analyze"
    /\ spc = "done"
    /\ hadErrorFlag
    /\ Exit(1)
    /\ UNCHANGED <<optVars, lexVars, parserVars, semaVars, genVars>>

\* `middleend::CodeGenerator middleendCodegen`, before its generate()
GenerateModule ==
    /\ compiler.pc = "analyze"
    /\ spc = "done"
    /\ ~hadErrorFlag
    /\ Begin("generate")
    /\ gen' = NewCodeGenerator
    /\ todo' = <<>>
    /\ result' = Null
    /\ gpc' = "new"
    /\ UNCHANGED <<optVars, lexVars, parserVars, semaVars, nameRead, earlier>>

\* the process dies in generate() at a read through a null pointer
GenerateCrashed ==
    /\ compiler.pc = "generate"
    /\ gpc = "crashed"
    /\ Exit(Segfault)
    /\ UNCHANGED <<optVars, lexVars, parserVars, semaVars, genVars>>

\* `optimizedModule = optimizer.optimize(std::move(module))`
OptimizeModule ==
    /\ compiler.pc = "generate"
    /\ gpc = "done"
    /\ Begin("optimize")
    /\ optimizer' = NewOptimizer
    /\ irModule' = Optimize(result)
    /\ UNCHANGED <<rendered, lexVars, parserVars, semaVars, genVars>>

\* `code = backendCodegen.generate(*optimizedModule)`
EmitCode ==
    /\ compiler.pc = "optimize"
    /\ Begin("emit")
    /\ UNCHANGED <<optVars, lexVars, parserVars, semaVars, genVars>>

\* writeFile(outputPath, code), then the return of compile() and of main()
WriteFile ==
    /\ compiler.pc \in { "emit", "write" }
    /\ \/ /\ compiler.pc = "emit"
          /\ Begin("write")
       \/ /\ compiler.pc = "write"
          /\ \E status \in { 0, 1 } : Exit(status)
    /\ UNCHANGED <<optVars, lexVars, parserVars, semaVars, genVars>>

CompileNext ==
    \/ ReadFile
    \/ ParseStatement
    \/ ParseReturn
    \/ ParseExhausted
    \/ AnalyzeProgram
    \/ AnalyzeVarStatement
    \/ AnalyzeExpressionStatement
    \/ AnalyzeReturn
    \/ AnalysisFailed
    \/ GenerateModule
    \/ Generate
    \/ VisitVarStmt
    \/ VisitExpressionStmt
    \/ GenerateReturn
    \/ GenerateCrashed
    \/ OptimizeModule
    \/ EmitCode
    \/ WriteFile

CompileSpec == CompileInit /\ [][CompileNext]_vars

\* whether s is the beginning of t
IsPrefix(s, t) == Len(s) <= Len(t) /\ s = SubSeq(t, 1, Len(s))

\* the step has begun
Begun(step) == \E i \in DOMAIN compiler.steps : compiler.steps[i] = step

\* C24: compile() begins its steps in the order parse, analyze, generate,
\* optimize, backend emit, write output; when analyzer.hadError() is true
\* after the analysis neither code generation nor a later step is begun and
\* the process exits with status 1; and nothing but that stops the pipeline
\* between the start of the parse and the start of code generation: errors
\* of the lexer or the parser alone do not.
C24_PipelineOrder ==
    /\ IsPrefix(compiler.steps, Steps)
    /\ spc = "done" /\ hadErrorFlag =>
         /\ ~Begun("generate")
         /\ compiler.pc \in { "analyze", "exited" }
         /\ compiler.pc = "exited" => compiler.exit = 1
    /\ compiler.pc = "exited" /\ Begun("parse") /\ ~Begun("generate") =>
         spc = "done" /\ hadErrorFlag

\* the source file `)` is read, the parser reports "Expect expression.",
\* parse() never returns and the process ends before the analysis
C24_ParseErrorStopsPipeline ==
    /\ compiler = Compiler("exited", << "read", "parse" >>, 1)
    /\ parser.toks = SrcStrayParen
    /\ parser.hadError
    /\ ppc = "hung"
    /\ spc = "idle"
    /\ gpc = "idle"

(***************************************************************************)
(* The lexer (compiler/frontend/lexer.cpp).  A source text is a sequence   *)
(* of characters, each a string of length one; a lexeme is a sequence of   *)
(* pieces (the characters of an input slice, or one diagnostic message).   *)
(* An operator that scans returns the token together with the lexer left   *)
(* behind: Lexed(token, lexer).                                            *)
(***************************************************************************)
LexToken(type, lexeme, line, column) ==
    [type |-> type, lexeme |-> lexeme, line |-> line, column |-> column]

Lexed(tok, l) == [token |-> tok, lexer |-> l]

\* F(x), F(x, y) and F(x, y, z) with each argument evaluated once, before F
Apply(F(_), x) == CHOOSE r \in { F(a) : a \in { x } } : TRUE

Apply2(F(_, _), x, y) ==
    CHOOSE r \in { F(a, b) : a \in { x }, b \in { y } } : TRUE

Apply3(F(_, _, _), x, y, z) ==
    CHOOSE r \in { F(a, b, c) : a \in { x }, b \in { y }, c \in { z } } : TRUE

\* Lexer::Lexer
NewLexer(source) ==
    [source |-> source, position |-> 0, line |-> 1, column |-> 1,
     ungotToken |-> Null]

\* Lexer::initKeywords
Keywords ==
    (<<"l", "e", "t">> :> "LET")
    @@ (<<"c", "o", "n", "s", "t">> :> "CONST")
    @@ (<<"f", "n">> :> "FN")
    @@ (<<"a", "s", "y", "n", "c">> :> "ASYNC")
    @@ (<<"a", "w", "a", "i", "t">> :> "AWAIT")
    @@ (<<"c", "o", "r", "o", "u", "t", "i", "n", "e">> :> "COROUTINE")
    @@ (<<"s", "t", "r", "u", "c", "t">> :> "STRUCT")
    @@ (<<"p", "r", "o", "c", "e", "s", "s">> :> "PROCESS")
    @@ (<<"c", "l", "a", "s", "s">> :> "CLASS")
    @@ (<<"i", "n", "t", "e", "r", "f", "a", "c", "e">> :> "INTERFACE")
    @@ (<<"i", "f">> :> "IF")
    @@ (<<"e", "l", "s", "e">> :> "ELSE")
    @@ (<<"f", "o", "r">> :> "FOR")
    @@ (<<"w", "h", "i", "l", "e">> :> "WHILE")
    @@ (<<"r", "e", "t", "u", "r", "n">> :> "RETURN")
    @@ (<<"b", "r", "e", "a", "k">> :> "BREAK")
    @@ (<<"c", "o", "n", "t", "i", "n", "u", "e">> :> "CONTINUE")
    @@ (<<"i", "m", "p", "o", "r", "t">> :> "IMPORT")
    @@ (<<"e", "x", "p", "o", "r", "t">> :> "EXPORT")
    @@ (<<"u", "s", "e">> :> "USE")
    @@ (<<"n", "a", "m", "e", "s", "p", "a", "c", "e">> :> "NAMESPACE")
    @@ (<<"c", "o", "n", "s", "t", "r", "u", "c", "t", "o", "r">> :> "CONSTRUCTOR")
    @@ (<<"t", "h", "i", "s">> :> "THIS")
    @@ (<<"n", "e", "w">> :> "NEW")
    @@ (<<"y", "i", "e", "l", "d">> :> "YIELD")
    @@ (<<"t", "r", "y">> :> "TRY")
    @@ (<<"c", "a", "t", "c", "h">> :> "CATCH")
    @@ (<<"f", "i", "n", "a", "l", "l", "y">> :> "FINALLY")
    @@ (<<"n", "u", "l", "l">> :> "NULL_")
    @@ (<<"t", "r", "u", "e">> :> "TRUE_")
    @@ (<<"f", "a", "l", "s", "e">> :> "FALSE_")
    @@ (<<"t", "y", "p", "e", "o", "f">> :> "TYPEOF")
    @@ (<<"i", "n", "s", "t", "a", "n", "c", "e", "o", "f">> :> "INSTANCEOF")
    @@ (<<"a", "s">> :> "AS")

\* the character '\0'
Nul == ""

\* Lexer::isAtEnd
IsAtEnd(l) == l.position >= Len(l.source)

\* source[i]: the character at index i (from 0), '\0' at index source.length()
CharAt(l, i) == IF i < Len(l.source) THEN l.source[i + 1] ELSE Nul

\* Lexer::peek
Peek(l) == IF IsAtEnd(l) THEN Nul ELSE l.source[l.position + 1]

\* Lexer::advance
LexAdvance(l) ==
    [l EXCEPT !.position = @ + 1,
              !.line = IF CharAt(l, l.position) = "\n" THEN @ + 1 ELSE @,
              !.column = IF CharAt(l, l.position) = "\n" THEN 1 ELSE @ + 1]

\* Lexer::match: the result, and the lexer after a successful match
LexMatch(l, expected) == ~IsAtEnd(l) /\ l.source[l.position + 1] = expected

LexMatched(l) == [l EXCEPT !.position = @ + 1, !.column = @ + 1]

\* <cctype>, on the characters of the "C" locale
IsDigit(c) == c \in { "0", "1", "2", "3", "4", "5", "6", "7", "8", "9" }

IsAlpha(c) ==
    c \in { "a", "b", "c", "d", "e", "f", "g", "h", "i", "j", "k", "l", "m",
            "n", "o", "p", "q", "r", "s", "t", "u", "v", "w", "x", "y", "z",
            "A", "B", "C", "D", "E", "F", "G", "H", "I", "J", "K", "L", "M",
            "N", "O", "P", "Q", "R", "S", "T", "U", "V", "W", "X", "Y", "Z" }

IsAlnum(c) == IsAlpha(c) \/ IsDigit(c)

\* Lexer::makeToken
MakeToken(l, type, lexeme) ==
    Lexed(LexToken(type, lexeme, l.line, l.column - Len(lexeme)), l)

\* an error token whose lexeme is empty
ErrorTokenNoMessage(l, message) ==
    Lexed(LexToken("ERROR", << >>, l.line, l.column), l)

\* Lexer::errorToken
ErrorToken(l, message) ==
    Lexed(LexToken("ERROR", << message >>, l.line, l.column), l)

\* Lexer::skipComment
RECURSIVE SkipComment(_)
SkipComment(l) ==
    IF ~IsAtEnd(l) /\ Peek(l) # "\n" THEN Apply(SkipComment, LexAdvance(l)) ELSE l

\* Lexer::skipWhitespace, the loop over the content of a block comment
RECURSIVE BlockCommentLoop(_)
BlockCommentLoop(l) ==
    IF ~IsAtEnd(l) /\ ~(Peek(l) = "*" /\ CharAt(l, l.position + 1) = "/")
    THEN Apply(BlockCommentLoop,
               LexAdvance(IF Peek(l) = "\n"
                          THEN [l EXCEPT !.line = @ + 1, !.column = 1]
                          ELSE l))
    ELSE l

\* Lexer::skipWhitespace, the closing of a block comment
BlockCommentEnd(l) == IF ~IsAtEnd(l) THEN LexAdvance(LexAdvance(l)) ELSE l

\* Lexer::skipWhitespace.  In `case '/'` the character tested, peek(), is the
\* '/' the switch has just matched.
RECURSIVE SkipWhitespace(_)
SkipWhitespace(l) ==
    IF IsAtEnd(l) THEN l
    ELSE CASE Peek(l) \in { " ", "\t", "\r", "\n" } -> Apply(SkipWhitespace, LexAdvance(l))
           [] Peek(l) = "/" ->
                IF Peek(l) = "/" THEN Apply(SkipWhitespace, SkipComment(l))
                ELSE IF Peek(l) = "*"
                THEN Apply(SkipWhitespace,
                           Apply(BlockCommentEnd,
                                 Apply(BlockCommentLoop, LexAdvance(LexAdvance(l)))))
                ELSE l
           [] OTHER -> l

\* Lexer::identifier
RECURSIVE IdentifierLoop(_)
IdentifierLoop(l) ==
    IF ~IsAtEnd(l) /\ (IsAlnum(Peek(l)) \/ Peek(l) = "_")
    THEN Apply(IdentifierLoop, LexAdvance(l)) ELSE l

IdentifierEnd(lexeme, l) ==
    MakeToken(l, IF lexeme \in DOMAIN Keywords THEN Keywords[lexeme]
                 ELSE "IDENTIFIER", lexeme)

IdentifierLexeme(start, l) ==
    Apply2(IdentifierEnd, SubSeq(l.source, start + 1, l.position), l)

Identifier(l) == Apply2(IdentifierLexeme, l.position - 1, IdentifierLoop(l))

\* Lexer::number
RECURSIVE Digits(_)
Digits(l) == IF ~IsAtEnd(l) /\ IsDigit(Peek(l)) THEN Apply(Digits, LexAdvance(l)) ELSE l

NumberEnd(start, isFloat, l) ==
    MakeToken(l, IF isFloat THEN "FLOAT" ELSE "INTEGER",
              SubSeq(l.source, start + 1, l.position))

HasExponent(l) ==
    /\ Peek(l) \in { "e", "E" }
    /\ \/ IsDigit(CharAt(l, l.position + 1))
       \/ /\ CharAt(l, l.position + 1) \in { "+", "-" }
          /\ IsDigit(CharAt(l, l.position + 2))

ExponentSign(l) == IF Peek(l) \in { "+", "-" } THEN LexAdvance(l) ELSE l

NumberExponent(start, isFloat, l) ==
    IF HasExponent(l)
    THEN Apply3(NumberEnd, start, TRUE,
                Apply(Digits, Apply(ExponentSign, LexAdvance(l))))
    ELSE NumberEnd(start, isFloat, l)

NumberFraction(start, l) ==
    IF Peek(l) = "." /\ IsDigit(CharAt(l, l.position + 1))
    THEN Apply3(NumberExponent, start, TRUE, Apply(Digits, LexAdvance(l)))
    ELSE NumberExponent(start, FALSE, l)

Number(l) == Apply2(NumberFraction, l.position - 1, Digits(l))

\* Lexer::string
RECURSIVE StringLoop(_)
StringLoop(l) ==
    IF ~IsAtEnd(l) /\ Peek(l) # "\""
    THEN Apply(StringLoop,
               LexAdvance(IF Peek(l) = "\\" THEN LexAdvance(l) ELSE l))
    ELSE l

StringEnd(start, l) ==
    IF IsAtEnd(l) THEN ErrorToken(l, "Unterminated string")
    ELSE MakeToken(LexAdvance(l), "STRING", SubSeq(l.source, start + 1, l.position))

String(l) == Apply2(StringEnd, l.position, StringLoop(l))

\* Lexer::character
CharacterEnd(start, l) ==
    IF IsAtEnd(l) \/ Peek(l) # "'" THEN ErrorToken(l, "Unterminated character")
    ELSE MakeToken(LexAdvance(l), "CHARACTER",
                   SubSeq(l.source, start + 1, l.position))

Character(l) ==
    Apply2(CharacterEnd, l.position,
           LexAdvance(IF Peek(l) = "\\" THEN LexAdvance(l) ELSE l))

\* Lexer::scanToken, `if (match(second)) return two; else return one;`
OneOrTwo(l, first, one, second, two) ==
    IF LexMatch(l, second) THEN MakeToken(LexMatched(l), two, << first, second >>)
    ELSE MakeToken(l, one, << first >>)

\* Lexer::scanToken, the switch on the character c that advance() returned
ScanChar(c, l) ==
    CASE c = "+" ->
           IF LexMatch(l, "+") THEN MakeToken(LexMatched(l), "PLUS_PLUS", << "+", "+" >>)
           ELSE OneOrTwo(l, "+", "PLUS", "=", "PLUS_ASSIGN")
      [] c = "-" ->
           IF LexMatch(l, "-") THEN MakeToken(LexMatched(l), "MINUS_MINUS", << "-", "-" >>)
           ELSE IF LexMatch(l, "=") THEN MakeToken(LexMatched(l), "MINUS_ASSIGN", << "-", "=" >>)
           ELSE OneOrTwo(l, "-", "MINUS", ">", "ARROW")
      [] c = "*" -> OneOrTwo(l, "*", "MULTIPLY", "=", "MULTIPLY_ASSIGN")
      [] c = "/" -> OneOrTwo(l, "/", "DIVIDE", "=", "DIVIDE_ASSIGN")
      [] c = "%" -> OneOrTwo(l, "%", "MODULO", "=", "MODULO_ASSIGN")
      [] c = "=" -> OneOrTwo(l, "=", "ASSIGN", "=", "EQUAL")
      [] c = "!" -> OneOrTwo(l, "!", "NOT", "=", "NOT_EQUAL")
      [] c = "<" ->
           IF LexMatch(l, "<")
           THEN IF LexMatch(LexMatched(l), "=")
                THEN MakeToken(LexMatched(LexMatched(l)), "LEFT_SHIFT_ASSIGN",
                               << "<", "<", "=" >>)
                ELSE MakeToken(LexMatched(l), "LEFT_SHIFT", << "<", "<" >>)
           ELSE OneOrTwo(l, "<", "LESS", "=", "LESS_EQUAL")
      [] c = ">" ->
           IF LexMatch(l, ">")
           THEN IF LexMatch(LexMatched(l), ">")
                THEN IF LexMatch(LexMatched(LexMatched(l)), "=")
                     THEN MakeToken(LexMatched(LexMatched(LexMatched(l))),
                                    "UNSIGNED_RIGHT_SHIFT_ASSIGN",
                                    << ">", ">", ">", "=" >>)
                     ELSE MakeToken(LexMatched(LexMatched(l)),
                                    "UNSIGNED_RIGHT_SHIFT", << ">", ">", ">" >>)
                ELSE IF LexMatch(LexMatched(l), "=")
                THEN MakeToken(LexMatched(LexMatched(l)), "RIGHT_SHIFT_ASSIGN",
                               << ">", ">", "=" >>)
                ELSE MakeToken(LexMatched(l), "RIGHT_SHIFT", << ">", ">" >>)
           ELSE OneOrTwo(l, ">", "GREATER", "=", "GREATER_EQUAL")
      [] c = "&" ->
           IF LexMatch(l, "&") THEN MakeToken(LexMatched(l), "AND", << "&", "&" >>)
           ELSE OneOrTwo(l, "&", "BIT_AND", "=", "BIT_AND_ASSIGN")
      [] c = "|" ->
           IF LexMatch(l, "|") THEN MakeToken(LexMatched(l), "OR", << "|", "|" >>)
           ELSE OneOrTwo(l, "|", "BIT_OR", "=", "BIT_OR_ASSIGN")
      [] c = "^" -> OneOrTwo(l, "^", "BIT_XOR", "=", "BIT_XOR_ASSIGN")
      [] c = "~" -> MakeToken(l, "BIT_NOT", << "~" >>)
      [] c = ";" -> MakeToken(l, "SEMICOLON", << ";" >>)
      [] c = ":" -> OneOrTwo(l, ":", "COLON", ":", "DOUBLE_COLON")
      [] c = "," -> MakeToken(l, "COMMA", << "," >>)
      [] c = "." -> IF IsDigit(Peek(l)) THEN Number(l)
                    ELSE MakeToken(l, "DOT", << "." >>)
      [] c = "(" -> MakeToken(l, "LEFT_PAREN", << "(" >>)
      [] c = ")" -> MakeToken(l, "RIGHT_PAREN", << ")" >>)
      [] c = "{" -> MakeToken(l, "LEFT_BRACE", << "{" >>)
      [] c = "}" -> MakeToken(l, "RIGHT_BRACE", << "}" >>)
      [] c = "[" -> MakeToken(l, "LEFT_BRACKET", << "[" >>)
      [] c = "]" -> MakeToken(l, "RIGHT_BRACKET", << "]" >>)
      [] c = "\"" -> String(l)
      [] c = "'" -> Character(l)
      [] IsDigit(c) -> Number(l)
      [] IsAlpha(c) \/ c = "_" -> Identifier(l)
      [] OTHER -> ErrorToken(l, "Unexpected character")

\* Lexer::scanToken
ScanToken(l) == Apply2(ScanChar, CharAt(l, l.position), LexAdvance(l))

\* Lexer::getNextToken, after skipWhitespace()
ScanOrEnd(l) ==
    IF IsAtEnd(l) THEN MakeToken(l, "END_OF_FILE", << >>) ELSE ScanToken(l)

\* Lexer::getNextToken
LexerGetNextToken(l) ==
    IF l.ungotToken # Null
    THEN Lexed(l.ungotToken, [l EXCEPT !.ungotToken = Null])
    ELSE Apply(ScanOrEnd, SkipWhitespace(l))

\* a push back that keeps the token already in the slot
UngetTokenKeepFirst(l, t) ==
    IF l.ungotToken # Null THEN l ELSE [l EXCEPT !.ungotToken = t]

\* Lexer::ungetToken
UngetToken(l, t) == [l EXCEPT !.ungotToken = t]

(***************************************************************************)
(* LexSpec: a caller of the lexer.  It calls getNextToken() and            *)
(* ungetToken() in any order on a lexer constructed over a source text.    *)
(***************************************************************************)
\* the characters of the enumerated source texts
LexAlphabet == { "e", "1", ".", "/", "\"", "'", "@", "\n" }

Texts(n) == UNION { [1..k -> LexAlphabet] : k \in 0..n }

\* `a / b;`
TextDivide == << "a", " ", "/", " ", "b", ";" >>

\* `a /= b;`
TextDivideAssign == << "a", " ", "/", "=", " ", "b", ";" >>

\* `/*x\ny*/z`
TextBlockComment == << "/", "*", "x", "\n", "y", "*", "/", "z" >>

\* `/*x*/z`
TextBlockCommentLine == << "/", "*", "x", "*", "/", "z" >>

\* `/*x`
TextBlockCommentOpen == << "/", "*", "x" >>

\* `42`
TextInteger == << "4", "2" >>

\* `1.5`
TextFloat == << "1", ".", "5" >>

\* `6.02e23`
TextExponent == << "6", ".", "0", "2", "e", "2", "3" >>

\* `1e-3`
TextNegativeExponent == << "1", "e", "-", "3" >>

\* `.5`
TextLeadingDot == << ".", "5" >>

\* `"ab`
TextStringOpen == << "\"", "a", "b" >>

\* `'ab`
TextCharacterOpen == << "'", "a", "b" >>

\* `let x='c';`
TextLet == << "l", "e", "t", " ", "x", "=", "'", "c", "'", ";" >>

\* a string literal that ends in a backslash: "\
TextStringBackslash == << "\"", "\\" >>

LexSamples ==
    { TextDivide,
      TextDivideAssign,
      TextBlockComment,
      TextBlockCommentLine,
      TextBlockCommentOpen,
      TextInteger,
      TextFloat,
      TextExponent,
      TextNegativeExponent,
      TextLeadingDot,
      TextStringOpen,
      TextCharacterOpen,
      TextLet,
      TextStringBackslash }

LexInputs == Texts(MaxSource) \cup LexSamples

\* a token that this lexer has not returned
OtherToken == LexToken("IDENTIFIER", << "t" >>, 0, 0)

\* the tokens a caller pushes back: the one it was last given, or another
UngetTokens == { OtherToken } \cup (IF token = Null THEN { } ELSE { token })

LexInit ==
    /\ \E source \in LexInputs : lexer = NewLexer(source)
    /\ token = Null
    /\ pushedBack = Null
    /\ program = << >>
    /\ ParserIdle
    /\ SemaIdle
    /\ GenIdle
    /\ OptIdle
    /\ MainIdle

GotToken(r) == lexer' = r.lexer /\ token' = r.token

\* a call of getNextToken()
NextToken ==
    /\ GotToken(LexerGetNextToken(lexer))
    /\ pushedBack' = Null
    /\ UNCHANGED <<mainVars, optVars, parserVars, semaVars, genVars>>

\* a call of ungetToken(t)
Unget ==
    /\ \E t \in UngetTokens : lexer' = UngetToken(lexer, t) /\ pushedBack' = t
    /\ UNCHANGED <<mainVars, optVars, token, parserVars, semaVars, genVars>>

LexNext == NextToken \/ Unget

LexSpec == LexInit /\ [][LexNext]_vars

Cursor(l) == << l.position, l.line, l.column >>

\* C12: a getNextToken() that follows ungetToken calls returns the token of
\* the last of them (one slot) and leaves the input cursor where it was; no
\* ungetToken moves the cursor or changes anything but the slot, so the call
\* after that returns what it would have returned had nothing been pushed
\* back.
C12_UngetThenGet ==
    /\ [][Unget => [lexer' EXCEPT !.ungotToken = Null]
                      = [lexer EXCEPT !.ungotToken = Null]]_vars
    /\ [][NextToken /\ pushedBack # Null =>
            /\ token' = pushedBack
            /\ Cursor(lexer') = Cursor(lexer)
            /\ LexerGetNextToken(lexer')
                 = LexerGetNextToken([lexer EXCEPT !.ungotToken = Null])]_vars

\* `a / b;`: after `a` was scanned another token was pushed back, and the
\* next call has returned it with the cursor still behind `a`
C12_PushedBackReturned ==
    /\ lexer.source = TextDivide
    /\ token = OtherToken
    /\ lexer.position = 1
    /\ lexer.ungotToken = Null
    /\ pushedBack = Null

\* a call of getNextToken() that finds the slot empty and scans
Scan == NextToken /\ lexer.ungotToken = Null

\* C13: a block comment is skipped as a whole: from the start of `/*x\ny*/z`
\* and of `/*x*/z` the first token scanned is the identifier z, and from the
\* start of the unterminated `/*x` it is END_OF_FILE.
C13_BlockCommentSkipped ==
    /\ [][Scan /\ lexer.position = 0
               /\ lexer.source \in { TextBlockComment, TextBlockCommentLine }
            => token'.type = "IDENTIFIER" /\ token'.lexeme = << "z" >>]_vars
    /\ [][Scan /\ lexer.position = 0 /\ lexer.source = TextBlockCommentOpen
            => token'.type = "END_OF_FILE"]_vars

\* `/*x\ny*/z`: the identifier y of the comment's second line was returned
C13_TokenFromComment ==
    /\ lexer.source = TextBlockComment
    /\ token = LexToken("IDENTIFIER", << "y" >>, 2, 1)

\* C14: for `a / b;` the lexer returns IDENTIFIER a, DIVIDE, IDENTIFIER b,
\* SEMICOLON, and for `a /= b;` the second token is DIVIDE_ASSIGN.
C14_DivideScanned ==
    [][Scan /\ lexer.source \in { TextDivide, TextDivideAssign } =>
         /\ lexer.position = 0 =>
              token'.type = "IDENTIFIER" /\ token'.lexeme = << "a" >>
         /\ lexer.position = 1 =>
              /\ token'.type = IF lexer.source = TextDivide THEN "DIVIDE"
                               ELSE "DIVIDE_ASSIGN"
              /\ lexer'.position = IF lexer.source = TextDivide THEN 3 ELSE 4
         /\ lexer.position \in { 3, 4 } =>
              token'.type = "IDENTIFIER" /\ token'.lexeme = << "b" >>
         /\ lexer.position \in { 5, 6 } => token'.type = "SEMICOLON"]_vars

\* `a / b;`: after `a` the lexer has returned END_OF_FILE, the rest of the
\* line consumed
C14_DivideSwallowed ==
    /\ lexer.source = TextDivide
    /\ token # Null
    /\ token.type = "END_OF_FILE"
    /\ lexer.position = Len(TextDivide)

\* the input slice of the given length that ends at the cursor
Slice(l, length) == SubSeq(l.source, l.position - length + 1, l.position)

Contains(lexeme, chars) == \E i \in DOMAIN lexeme : lexeme[i] \in chars

\* C15: a numeric literal is one token whose lexeme is the scanned slice, a
\* FLOAT if the lexeme has a fractional part or an exponent and an INTEGER
\* otherwise; `42`, `1.5`, `6.02e23`, `1e-3` and `.5` are one token each.
C15_NumberKind ==
    /\ [][Scan /\ token'.type \in { "INTEGER", "FLOAT" } =>
            /\ token'.lexeme = Slice(lexer', Len(token'.lexeme))
            /\ token'.type = "FLOAT" <=>
                 Contains(token'.lexeme, { ".", "e", "E" })]_vars
    /\ [][Scan /\ lexer.position = 0
               /\ lexer.source \in { TextInteger, TextFloat, TextExponent,
                                     TextNegativeExponent, TextLeadingDot }
            => /\ token'.type \in { "INTEGER", "FLOAT" }
               /\ token'.lexeme = lexer.source]_vars

\* `.5` was returned as an INTEGER
C15_LeadingDotInteger ==
    /\ lexer.source = TextLeadingDot
    /\ token = LexToken("INTEGER", << ".", "5" >>, 1, 1)

\* the input from the cursor on holds none of the given characters
Rest(l) == { l.source[i] : i \in (l.position + 2)..Len(l.source) }

\* C16: every call returns a token; an unterminated string literal, an
\* unterminated character literal and an unrecognized character each yield
\* an ERROR token whose lexeme is the diagnostic message; a scanning call
\* before the end of the input moves the cursor forward, END_OF_FILE is
\* returned at the end of the input only and from there on by every scanning
\* call, and it is returned eventually.
C16_ErrorsAndEndOfFile ==
    /\ [][NextToken => token' # Null /\ token'.type \in STRING]_vars
    /\ [][Scan /\ Peek(lexer) = "\"" /\ Rest(lexer) \cap { "\"", "\\" } = { }
            => token'.type = "ERROR"
               /\ token'.lexeme = << "Unterminated string" >>]_vars
    /\ [][Scan /\ Peek(lexer) = "'"
               /\ CharAt(lexer, lexer.position + 1) # "\\"
               /\ CharAt(lexer, lexer.position + 2) # "'"
            => token'.type = "ERROR"
               /\ token'.lexeme = << "Unterminated character" >>]_vars
    /\ [][Scan /\ Peek(lexer) = "@"
            => token'.type = "ERROR"
               /\ token'.lexeme = << "Unexpected character" >>]_vars
    /\ [][Scan /\ ~IsAtEnd(lexer) => lexer'.position > lexer.position]_vars
    /\ [][Scan /\ token'.type = "END_OF_FILE" => IsAtEnd(lexer')]_vars
    /\ [][Scan /\ IsAtEnd(lexer) =>
            token'.type = "END_OF_FILE" /\ IsAtEnd(lexer')]_vars
    /\ <>(token # Null /\ token.type = "END_OF_FILE")

\* `'ab`: the unterminated character literal was reported, the identifier b
\* was scanned after it, and END_OF_FILE was returned
C16_ScannedPastError ==
    /\ lexer.source = TextCharacterOpen
    /\ token # Null
    /\ token.type = "END_OF_FILE"

\* LexSpec with a caller that keeps asking for tokens: it calls
\* getNextToken() again and again (as Parser::advance does), and since a
\* pushed back token is consumed by the next call, calls that scan recur
LexLiveSpec ==
    LexInit /\ [][LexNext]_vars /\ WF_vars(NextToken) /\ SF_vars(Scan)

\* C30: after any sequence of getNextToken() calls the cursor is within the
\* source: position <= source.length().
C30_CursorWithinSource == lexer.position <= Len(lexer.source)

\* the source is a lone quote: the call returned the 'Unterminated character'
\* token and left the cursor one past the end of the source
C30_CursorPastEnd ==
    /\ lexer.source = << "'" >>
    /\ token # Null
    /\ token.type = "ERROR"
    /\ lexer.position = Len(lexer.source) + 1

=============================================================================
